---- MODULE Spec2Model ----
(***************************************************************************)
(* Model of the email validation engine of src/scripts/email_validator.py: *)
(* AsyncEmailValidator (validate_batch, validate_single,                   *)
(* smtp_verify_with_retry, _smtp_check_sync, get_mx_records), SMTPMonitor  *)
(* and the monitoring log of src/utils/logger.py.                          *)
(*                                                                         *)
(* One pipeline (a validate_single coroutine) exists per input address.    *)
(* A coroutine step is atomic from one await to the next, as asyncio runs  *)
(* it; the blocking calls handed to the executor (get_mx_records,          *)
(* _smtp_check_sync) run in a worker thread as a step of their own and     *)
(* touch only data of their pipeline.  The DNS resolver, the SMTP server   *)
(* and the file system are the environment: each call's outcome is a       *)
(* nondeterministic choice.                                                *)
(***************************************************************************)
EXTENDS Integers, Sequences, FiniteSets, TLC

\* ------------------------------------------------------------------ bounds
MaxBatch == 2
MaxConcurrent == 2
MaxRetries == 2
MaxChecks == 11

\* ------------------------------------------------------- characters, text
Lowercase == {"a","b","c","d","e","f","g","h","i","j","k","l","m",
              "n","o","p","q","r","s","t","u","v","w","x","y","z"}
Uppercase == {"A","B","C","D","E","F","G","H","I","J","K","L","M",
              "N","O","P","Q","R","S","T","U","V","W","X","Y","Z"}
Digits == {"0","1","2","3","4","5","6","7","8","9"}
Whitespace == {" "}

UpperToLower ==
  [c \in {"U", "X", "M", "E"} |->
     CASE c = "U" -> "u" [] c = "X" -> "x" [] c = "M" -> "m" [] c = "E" -> "e"]

\* str.lower() on the characters the inputs use
LowerChar(c) == IF c \in DOMAIN UpperToLower THEN UpperToLower[c] ELSE c

Lower(s) == [k \in 1..Len(s) |-> LowerChar(s[k])]

\* str.strip(): drop leading and trailing whitespace
RECURSIVE Strip(_)
Strip(s) ==
  IF s = <<>> THEN s
  ELSE IF s[1] \in Whitespace THEN Strip(Tail(s))
  ELSE IF s[Len(s)] \in Whitespace THEN Strip(SubSeq(s, 1, Len(s) - 1))
  ELSE s

\* email.strip().lower()
Normalize(email) == Lower(Strip(email))

\* Python's `pattern in text`
Contains(pattern, text) ==
  \E k \in 0..(Len(text) - Len(pattern)) :
     SubSeq(text, k + 1, k + Len(pattern)) = pattern

\* Position of the first "@" of s, 0 when there is none
FirstAt(s) ==
  IF \E k \in 1..Len(s) : s[k] = "@"
  THEN CHOOSE k \in 1..Len(s) : s[k] = "@" /\ \A j \in 1..(k - 1) : s[j] # "@"
  ELSE 0

\* email.split('@')[1]: the text between the first "@" and the next one
DomainOf(email) ==
  LET a == FirstAt(email)
      rest == SubSeq(email, a + 1, Len(email))
      b == FirstAt(rest)
  IN IF b = 0 THEN rest ELSE SubSeq(rest, 1, b - 1)

\* ------------------------------------------------------------ validate_syntax
LocalChars == Lowercase \cup Uppercase \cup Digits \cup {".", "_", "%", "+", "-"}
DomainChars == Lowercase \cup Uppercase \cup Digits \cup {".", "-"}
Letters == Lowercase \cup Uppercase

\* The pattern with [a-zA-Z]+ for the final label: one letter is enough
MatchesPatternOneLetter(s) ==
  \E at \in 2..Len(s) :
    /\ s[at] = "@"
    /\ \A k \in 1..(at - 1) : s[k] \in LocalChars
    /\ \E dot \in (at + 2)..(Len(s) - 1) :
         /\ s[dot] = "."
         /\ \A k \in (at + 1)..(dot - 1) : s[k] \in DomainChars
         /\ \A k \in (dot + 1)..Len(s) : s[k] \in Letters

\* re.match(r'^[a-zA-Z0-9._%+-]+@[a-zA-Z0-9.-]+\.[a-zA-Z]{2,}$', s)
MatchesPattern(s) ==
  \E at \in 2..Len(s) :
    /\ s[at] = "@"
    /\ \A k \in 1..(at - 1) : s[k] \in LocalChars
    /\ \E dot \in (at + 2)..(Len(s) - 2) :
         /\ s[dot] = "."
         /\ \A k \in (at + 1)..(dot - 1) : s[k] \in DomainChars
         /\ \A k \in (dot + 1)..Len(s) : s[k] \in Letters

validate_syntax(email) == MatchesPattern(Strip(email))

\* ------------------------------------------------------- catch-all providers
CATCH_ALL_PATTERNS ==
  << <<"g","m","a","i","l",".","c","o","m">>,
     <<"g","o","o","g","l","e","m","a","i","l",".","c","o","m">>,
     <<"o","u","t","l","o","o","k",".","c","o","m">>,
     <<"h","o","t","m","a","i","l",".","c","o","m">>,
     <<"l","i","v","e",".","c","o","m">>,
     <<"p","r","o","t","o","n","m","a","i","l",".","c","o","m">>,
     <<"i","c","l","o","u","d",".","c","o","m">>,
     <<"m","e",".","c","o","m">> >>

\* The catch-all list never consulted
is_catch_all_never(domain) == FALSE

is_catch_all_domain(domain) ==
  \E n \in 1..Len(CATCH_ALL_PATTERNS) : Contains(CATCH_ALL_PATTERNS[n], Lower(domain))

\* ------------------------------------------------------------ ValidationStatus
ValidationStatus ==
  {"VALID", "INVALID_SYNTAX", "NO_MX", "MAILBOX_NOT_FOUND", "CATCH_ALL",
   "CONNECTION_REFUSED", "TIMEOUT", "SMTP_ERROR", "GREYLISTED", "SERVER_UNAVAILABLE"}

\* ValidationStatus.<name>.value
StatusValue(status) ==
  CASE status = "VALID" -> "Valid"
    [] status = "INVALID_SYNTAX" -> "Invalid (Syntax)"
    [] status = "NO_MX" -> "Invalid (No MX)"
    [] status = "MAILBOX_NOT_FOUND" -> "Invalid (Mailbox Not Found)"
    [] status = "CATCH_ALL" -> "Catch-all (Risky)"
    [] status = "CONNECTION_REFUSED" -> "Connection Refused"
    [] status = "TIMEOUT" -> "Timeout (Unknown)"
    [] status = "SMTP_ERROR" -> "SMTP Error"
    [] status = "GREYLISTED" -> "Greylisted (Retry Later)"
    [] status = "SERVER_UNAVAILABLE" -> "Server Unavailable"

\* ValidationResult(email, status, details, mx_host="", attempts=1);
\* response_time is wall-clock time and is not modelled
ValidationResult(email, status, details, mx_host, attempts) ==
  [email |-> email, status |-> status, details |-> details,
   mx_host |-> mx_host, attempts |-> attempts]

\* ValidationResult.to_dict(); response_time_ms is there with a value that
\* is not modelled
to_dict(result) ==
  [email |-> result.email, status |-> StatusValue(result.status),
   details |-> result.details, mx_host |-> result.mx_host,
   attempts |-> result.attempts, response_time_ms |-> 0]

\* ------------------------------------------------------------------ inputs
\* "U@x.io": a well-formed address of an ordinary domain, not yet lower-cased
E_probe == <<"U","@","x",".","i","o">>
\* "u@me.com": a well-formed address of a listed catch-all provider
E_catch == <<"u","@","m","e",".","c","o","m">>
\* "ux.io": no "@"
E_nosyntax == <<"u","x",".","i","o">>

Emails == {E_probe, E_catch, E_nosyntax}

\* "u@x": no dot in the domain
E_nodot == <<"u","@","x">>
\* "u@x.i": a final label of one character
E_shorttld == <<"u","@","x",".","i">>

\* "u@n.io": a well-formed address of a domain that publishes the null MX
\* record "0 ." of RFC 7505
E_nullmx == <<"u","@","n",".","i","o">>

\* "u@home.com": a well-formed address of a domain that is not on the
\* catch-all list and has a listed name, "me.com", inside its own
E_inside == <<"u","@","h","o","m","e",".","c","o","m">>

\* The addresses a validation on its own is run on
SingleEmails == Emails \cup {E_nodot, E_shorttld, E_nullmx, E_inside}

D_x_io == <<"x",".","i","o">>
D_me_com == <<"m","e",".","c","o","m">>
D_n_io == <<"n",".","i","o">>
D_home_com == <<"h","o","m","e",".","c","o","m">>

\* ----------------------------------------------------- DNS (the environment)
\* str(record.exchange).rstrip('.') for the exchange names of the zones: the
\* resolver gives absolute names, and the root name "." of a null MX record
\* becomes the empty string
RStripDot ==
  [x \in {"mx1.x.io.", "mx2.x.io.", "mx.me.com.", "."} |->
     CASE x = "mx1.x.io." -> "mx1.x.io"
       [] x = "mx2.x.io." -> "mx2.x.io"
       [] x = "mx.me.com." -> "mx.me.com"
       [] x = "." -> ""]

\* The host names get_mx_records can return
Hosts == {RStripDot[x] : x \in DOMAIN RStripDot}

\* str order of the host names
HostRank == [h \in Hosts |->
               CASE h = "" -> 0 [] h = "mx.me.com" -> 1 [] h = "mx1.x.io" -> 2
                 [] h = "mx2.x.io" -> 3]

\* The MX record set (preference, exchange) the name servers hold for a domain
Zone(domain) ==
  IF domain = D_x_io THEN {<<20, "mx2.x.io.">>, <<10, "mx1.x.io.">>}
  ELSE IF domain = D_me_com THEN {<<10, "mx.me.com.">>}
  ELSE IF domain = D_n_io THEN {<<0, ".">>}
  ELSE IF domain = D_home_com THEN {<<10, "mx1.x.io.">>}
  ELSE {}

\* What one resolve(domain, 'MX') call can do: answer, or raise
DnsOutcomes == {"answer", "NXDOMAIN", "NoAnswer", "NoNameservers", "Timeout", "error"}

\* Python's tuple order on (preference, exchange)
\* The records ordered by host name alone, last name first
TupleByNameDescending(a, b) == HostRank[a[2]] > HostRank[b[2]]

TupleLess(a, b) == a[1] < b[1] \/ (a[1] = b[1] /\ HostRank[a[2]] < HostRank[b[2]])

\* sorted(records)
RECURSIVE Sorted(_)
Sorted(S) ==
  IF S = {} THEN <<>>
  ELSE LET m == CHOOSE r \in S : \A q \in S \ {r} : TupleLess(r, q)
       IN <<m>> \o Sorted(S \ {m})

\* get_mx_records without the handler of dns.exception.Timeout
get_mx_records_timeout_escapes(domain, outcome) ==
  IF outcome = "answer" /\ Zone(domain) # {}
    THEN [raised |-> FALSE,
          records |-> Sorted({<<record[1], RStripDot[record[2]]>> : record \in Zone(domain)})]
  ELSE IF outcome \in {"answer", "NoAnswer", "NXDOMAIN", "NoNameservers"}
    THEN [raised |-> FALSE, records |-> <<>>]
  ELSE [raised |-> TRUE, records |-> <<>>]

\* get_mx_records: the sorted records, [] for the caught resolver errors,
\* and any other exception of the resolver leaves the function
get_mx_records(domain, outcome) ==
  IF outcome = "answer" /\ Zone(domain) # {}
    THEN [raised |-> FALSE,
          records |-> Sorted({<<record[1], RStripDot[record[2]]>> : record \in Zone(domain)})]
  ELSE IF outcome \in {"answer", "NoAnswer"}
    THEN [raised |-> FALSE, records |-> <<>>]
  ELSE IF outcome \in {"NXDOMAIN", "NoNameservers", "Timeout"}
    THEN [raised |-> FALSE, records |-> <<>>]
  ELSE [raised |-> TRUE, records |-> <<>>]

\* ------------------------------------------- SMTP server (the environment)
\* The recipient-announcement replies the server may give
RcptCodes == {250, 421, 450, 451, 452, 500, 550}

\* What a call of the SMTP library can raise, as _smtp_check_sync's handlers
\* tell them apart: socket.timeout, ConnectionRefusedError,
\* SMTPServerDisconnected, any other exception.  Which call may raise which
\* is the library's business; every call after connect() is taken to be able
\* to raise all but a refused connection.
SmtpExceptions == {"timeout", "refused", "disconnected", "error"}

Reply(code) == [exc |-> "none", code |-> code]
Raises(kind) == [exc |-> kind, code |-> 0]

ConnectReplies == {Reply(220)} \cup {Raises(k) : k \in SmtpExceptions}
GreetReplies == {Reply(250), Reply(502)} \cup {Raises(k) : k \in SmtpExceptions \ {"refused"}}
MailReplies == {Reply(250), Reply(550)} \cup {Raises(k) : k \in SmtpExceptions \ {"refused"}}
RcptReplies == {Reply(c) : c \in RcptCodes} \cup {Raises(k) : k \in SmtpExceptions \ {"refused"}}
QuitReplies == {Reply(221)} \cup {Raises(k) : k \in SmtpExceptions \ {"refused"}}

\* A server that accepts every command
Accepting == [connect |-> Reply(220), ehlo |-> Reply(250), helo |-> Reply(250),
              mail |-> Reply(250), rcpt |-> Reply(250), quit |-> Reply(221)]

\* The server's behaviour during one connection: its reply to each command.
\* Replies that are never read (after a raised exception; to a HELO that is
\* not sent) are left as in Accepting.
Scripts ==
  {[Accepting EXCEPT !.connect = c] : c \in ConnectReplies \ {Reply(220)}}
  \cup {[Accepting EXCEPT !.ehlo = e] : e \in GreetReplies \ {Reply(250), Reply(502)}}
  \cup {[Accepting EXCEPT !.ehlo = Reply(502), !.helo = h] :
          h \in GreetReplies \ {Reply(250), Reply(502)}}
  \cup {[Accepting EXCEPT !.ehlo = e, !.helo = h, !.mail = m, !.rcpt = r, !.quit = q] :
          e \in {Reply(250), Reply(502)}, h \in {Reply(250), Reply(502)},
          m \in MailReplies, r \in RcptReplies, q \in QuitReplies}

\* ------------------------------------------------------------ _smtp_check_sync
\* Classify with the permanent-rejection branch taken for 550 and above only
ClassifyFrom550(code) ==
  IF code = 250 THEN [status |-> "VALID", details |-> "accepted"]
  ELSE IF code \in {450, 451, 452} THEN [status |-> "GREYLISTED", details |-> "temporary"]
  ELSE IF code >= 550 THEN [status |-> "MAILBOX_NOT_FOUND", details |-> "rejected"]
  ELSE [status |-> "SMTP_ERROR", details |-> "unexpected_code"]

\* The branch on the recipient-announcement reply code (lines 441-479)
Classify(code) ==
  IF code = 250 THEN [status |-> "VALID", details |-> "accepted"]
  ELSE IF code \in {450, 451, 452} THEN [status |-> "GREYLISTED", details |-> "temporary"]
  ELSE IF code >= 500 THEN [status |-> "MAILBOX_NOT_FOUND", details |-> "rejected"]
  ELSE [status |-> "SMTP_ERROR", details |-> "unexpected_code"]

\* The close placed after quit() in the try block instead of in a finally
\* clause: an exit by exception skips it
CloseOnReturnOnly(exit, open) == IF exit = "return" THEN FALSE ELSE open

\* The finally clause: `if smtp: smtp.close()`.  `exit` is the way the try
\* block was left and `open` whether the socket is open at that point; the
\* value is whether it is open afterwards.  smtp is bound before connect()
\* is called, so the close runs on every exit.
CloseOnExit(exit, open) == FALSE

\* A handshake that never falls back to HELO
NeedsHeloNever(reply) == FALSE

\* Lines 423-425: `if code != 250: smtp.helo()`, for an ehlo() that returned
NeedsHelo(reply) == reply.exc = "none" /\ reply.code # 250

\* A handshake that announces the recipient before the sender
StepsRecipientFirst(legacy) ==
  IF legacy THEN <<"connect", "ehlo", "helo", "rcpt", "mail">>
  ELSE <<"connect", "ehlo", "rcpt", "mail">>

\* Lines 418-431: the library calls of the try block up to the recipient
\* announcement, in program order; `legacy` says whether helo() is called
Steps(legacy) ==
  IF legacy THEN <<"connect", "ehlo", "helo", "mail", "rcpt">>
  ELSE <<"connect", "ehlo", "mail", "rcpt">>

\* quit() called outside the inner try block: what it raises goes to the
\* handlers of the outer one
quit_unguarded(reply) == reply.exc

\* Lines 433-438, `try: smtp.quit() except Exception: pass`: the exception
\* that leaves the statement when quit() ended as `reply`
quit_guarded(reply) == "none"

\* One run of _smtp_check_sync against a server behaving as `script`:
\*   exc     "none" when a ValidationResult is returned, else the exception
\*           re-raised to the caller ("timeout", "refused")
\*   status, details   of the returned ValidationResult
\*   wire    the commands sent on the connection, in order
\*   connected   whether connect() succeeded
\*   open    whether the connection is open when the function ends
_smtp_check_sync(script) ==
  LET steps == Steps(NeedsHelo(script.ehlo))
      failing == {k \in 1..Len(steps) : script[steps[k]].exc # "none"}
      stop == IF failing = {} THEN 0
              ELSE CHOOSE k \in failing : \A j \in failing : k <= j
      exc == IF stop = 0 THEN quit_guarded(script.quit) ELSE script[steps[stop]].exc
      connected == script.connect.exc = "none"
      sent == IF stop = 0 THEN steps \o <<"quit">> ELSE SubSeq(steps, 1, stop)
      exit == IF exc = "none" THEN "return" ELSE exc
      answer == Classify(script.rcpt.code)
  IN [exc |-> IF exc \in {"timeout", "refused"} THEN exc ELSE "none",
      status |-> IF exc = "none" THEN answer.status
                 ELSE IF exc \in {"disconnected", "error"} THEN "SMTP_ERROR"
                 ELSE "",
      details |-> IF exc = "none" THEN answer.details
                  ELSE IF exc = "disconnected" THEN "server_disconnected"
                  ELSE IF exc = "error" THEN "error"
                  ELSE "",
      wire |-> sent \o <<"close">>,
      connected |-> connected,
      open |-> CloseOnExit(exit, connected)]

\* Every way one run of _smtp_check_sync can end, as its caller and the
\* socket see it
SmtpOutcomes ==
  {LET r == _smtp_check_sync(script)
   IN [exc |-> r.exc, status |-> r.status, details |-> r.details,
       connected |-> r.connected, open |-> r.open] : script \in Scripts}

\* ------------------------------------------------------------------ SMTPMonitor
\* The defaultdict entry of a host never recorded
NoChecks == [total |-> 0, success |-> 0, failures |-> 0, timeouts |-> 0, refused |-> 0]

\* A record_check that starts from the counters of a host never recorded
\* instead of the host's own: what the others recorded is lost
record_check_overwrites(checks, mx_host, success, error_type) ==
  LET counted == [NoChecks EXCEPT !.total = @ + 1]
      updated ==
        IF success THEN [counted EXCEPT !.success = @ + 1]
        ELSE [counted EXCEPT !.failures = @ + 1]
  IN [checks EXCEPT ![mx_host] = updated]

\* SMTPMonitor.record_check (time stamps and response times are not modelled)
record_check(checks, mx_host, success, error_type) ==
  LET stats == checks[mx_host]
      counted == [stats EXCEPT !.total = @ + 1]
      updated ==
        IF success THEN [counted EXCEPT !.success = @ + 1]
        ELSE IF error_type = "timeout"
          THEN [counted EXCEPT !.failures = @ + 1, !.timeouts = @ + 1]
        ELSE IF error_type = "refused"
          THEN [counted EXCEPT !.failures = @ + 1, !.refused = @ + 1]
        ELSE [counted EXCEPT !.failures = @ + 1]
  IN [checks EXCEPT ![mx_host] = updated]

\* needs_rotation with `<= 10` for the minimum sample: ten checks are too few
needs_rotation_over_ten(monitor, host, threshold) ==
  LET stats == monitor[host]
  IN IF stats.total <= 10 THEN FALSE
     ELSE \/ stats.success * threshold[2] < threshold[1] * stats.total
          \/ stats.timeouts * 10 > 3 * stats.total

\* SMTPMonitor.needs_rotation.  The threshold is the fraction
\* threshold[1] / threshold[2]; success_rate < threshold and
\* timeout_rate > 0.3 are compared without dividing.
needs_rotation(monitor, host, threshold) ==
  LET stats == monitor[host]
  IN IF stats.total < 10 THEN FALSE
     ELSE \/ stats.success * threshold[2] < threshold[1] * stats.total
          \/ stats.timeouts * 10 > 3 * stats.total

\* ------------------------------------------------------- src/api.py: /validate
\* JSON values as request.get_json() returns them: None, a str, an int, a
\* list of str, a dict
JNull == [type |-> "null"]
JStr(chars) == [type |-> "str", value |-> chars]
JInt(n) == [type |-> "int", value |-> n]
JList(items) == [type |-> "list", value |-> items]
JDict(fields) == [type |-> "dict", value |-> fields]

\* The str 'emails'
EmailsKey == <<"e","m","a","i","l","s">>

\* Python's truth value of a JSON value: `not data` is its negation
Truthy(data) ==
  CASE data.type = "null" -> FALSE
    [] data.type = "int" -> data.value # 0
    [] OTHER -> DOMAIN data.value # {}

\* Python's `'emails' in data`: a key of a dict, an element of a list, a
\* substring of a str; TypeError for an int
HasEmails(data) ==
  CASE data.type = "dict" -> "emails" \in DOMAIN data.value
    [] data.type = "list" -> \E k \in DOMAIN data.value : data.value[k] = EmailsKey
    [] data.type = "str" -> Contains(EmailsKey, data.value)
    [] OTHER -> FALSE

\* The largest list validate_emails accepts
MaxEmails == 1000

\* The settings of the validator when the body names none
DefaultMaxConcurrent == 50
DefaultMaxRetries == 3

\* Lines 87-108 of validate_emails: how the body fares before the validator
\* is built.  data.get on a list or a str raises AttributeError.
Screen(data) ==
  IF ~Truthy(data) \/ ~HasEmails(data) THEN "missing"
  ELSE IF data.type # "dict" THEN "raises"
  ELSE IF data.value.emails.type # "list" THEN "not_array"
  ELSE IF Len(data.value.emails.value) > MaxEmails THEN "too_many"
  ELSE "passes"

\* data.get(key, default) of lines 112-113
Setting(data, key, default) ==
  IF key \in DOMAIN data.value THEN data.value[key].value ELSE default

\* No HTTP request: validate_batch is called directly
NoRequest == [type |-> "none"]

\* validate_emails has not answered
NoResponse == [code |-> 0]

\* The answers of validate_emails: jsonify(...) with the HTTP status
BadRequest(error) == [code |-> 400, error |-> error]
ServerError == [code |-> 500]
Ok(records) ==
  [code |-> 200, total |-> Len(records),
   results |-> [k \in 1..Len(records) |-> to_dict(records[k])]]

\* ---------------------------------------------------------------------- state
VARIABLES
  emails,          \* validate_batch's argument: the input addresses, in order
  max_concurrent,  \* AsyncEmailValidator.max_concurrent
  max_retries,     \* AsyncEmailValidator.max_retries
  rate_limit_delay,  \* AsyncEmailValidator.rate_limit_delay, in tenths of a second
  retry_delay,     \* AsyncEmailValidator.retry_delay, in tenths of a second
  batch,           \* validate_batch: "idle" (not called), "running", "returned" or "raised"
  results,         \* the list validate_batch returns
  finished,        \* the pipelines in the order they returned
  sem,             \* AsyncEmailValidator.semaphore: the free permits
  pc,              \* where each validate_single coroutine is suspended
  mx_host,         \* validate_single's mx_host, "" before it is assigned
  attempt,         \* smtp_verify_with_retry's loop variable
  last_error,      \* smtp_verify_with_retry's last_error
  error_type,      \* smtp_verify_with_retry's error_type, "unbound" before it is assigned
  thr,             \* the executor job each pipeline has outstanding
  ret,             \* the ValidationResult each pipeline returned
  checks,          \* SMTPMonitor.checks
  logfile,         \* the lines of logs/smtp_monitoring.jsonl
  conn,            \* whether the connection of the pipeline's last handshake is open
  mxCalls,         \* history: resolver calls made for each pipeline
  rcCalls,         \* history: record_check calls made for each host
  hsCount,         \* history: _smtp_check_sync runs made for each pipeline
  verdict,         \* history: how the pipeline's last handshake ended
  opened,          \* history: whether the pipeline's last handshake had connected
  heard,           \* history: what the pipeline's collaborators answered it, in order
  slept,           \* history: the asyncio.sleep calls of the pipeline, in order
  script,          \* the server behaviour a single handshake is run against
  probe,           \* what that single run of _smtp_check_sync produced
  request,         \* the JSON body of the POST /validate being served
  response,        \* what validate_emails answered
  now,             \* datetime.now(), in hours
  report,          \* what get_smtp_stats returned
  tg_max_retries,  \* TelegramSender.max_retries
  tg_pc,           \* where _make_request_with_retry is: "idle" (not called), "request", "sleep", "returned"
  tg_attempt,      \* _make_request_with_retry's loop variable
  tg_ret,          \* the pair _make_request_with_retry returned
  tg_heard,        \* history: how the HTTP requests of the call ended, in order
  tg_slept         \* history: the time.sleep calls of the call, in order

vars == <<emails, max_concurrent, max_retries, rate_limit_delay, retry_delay, slept, batch, results, finished, sem, pc,
          mx_host, attempt, last_error, error_type, thr, ret, checks,
          logfile, conn, mxCalls, rcCalls, hsCount, verdict, opened, heard, script, probe,
          request, response, now, report,
          tg_max_retries, tg_pc, tg_attempt, tg_ret, tg_heard, tg_slept>>

config == <<emails, max_concurrent, max_retries, rate_limit_delay, retry_delay>>
locals == <<mx_host, attempt, last_error, error_type>>
shared == <<checks, logfile, rcCalls>>
probes == <<conn, hsCount, verdict, opened>>
bench == <<script, probe>>
http == <<request, response>>
clock == <<now, report>>
telegram == <<tg_max_retries, tg_pc, tg_attempt, tg_ret, tg_heard, tg_slept>>

\* ------------------------------------------------------- src/utils/logger.py
\* json.dumps(value) + newline: a line of the file that holds a JSON document
json_dumps(value) == [text |-> "json", value |-> value]

\* A line that holds no JSON document: a torn write, an empty line
TornLine == [text |-> "torn"]

\* json.loads(line.strip())
json_loads(line) ==
  IF line.text = "json" THEN [raises |-> "", value |-> line.value]
  ELSE [raises |-> "JSONDecodeError"]

\* A timestamp that is no ISO date, and datetime.fromisoformat
BadStamp == -1
fromisoformat(stamp) ==
  IF stamp = BadStamp THEN [raises |-> "ValueError"] ELSE [raises |-> "", value |-> stamp]

\* The dict log_smtp_check builds (lines 134-146); response_time_ms is not
\* modelled
LogEntry(email, host, status, attempts, error) ==
  [timestamp |-> now,
   email |-> email, domain |-> DomainOf(email), mx_host |-> host,
   status |-> StatusValue(status), attempts |-> attempts,
   success |-> StatusValue(status) \in {"Valid", "Catch-all (Risky)"},
   error |-> error]

\* A log_smtp_check that returns without writing
log_smtp_check_silent(file, email, host, status, attempts, error) == file

\* log_smtp_check: the file after the call, when the write succeeds
log_smtp_check(file, email, host, status, attempts, error) ==
  Append(file, json_dumps(JDict(LogEntry(email, host, status, attempts, error))))

\* The keys checks_by_mx can get: entry.get('mx_host', 'unknown')
StatHosts == Hosts \cup {"unknown"}

\* mx_stats[:10]
TopHosts == 10

\* Lines 191-199: the counters before the first line; hosts lists the keys
\* of checks_by_mx in the order they were inserted
NoStats ==
  [raises |-> "", total_checks |-> 0, total_success |-> 0,
   checks_by_mx |-> [h \in StatHosts |-> [total |-> 0, success |-> 0]],
   hosts |-> <<>>]

\* Lines 203-227: the body of the loop for one line.  `except` catches
\* JSONDecodeError and KeyError; indexing a document that is no dict raises
\* TypeError and a timestamp that is no ISO date ValueError.
ReadLine(stats, line, cutoff_time) ==
  LET parsed == json_loads(line)
  IN IF parsed.raises # "" THEN stats
     ELSE IF parsed.value.type # "dict" THEN [stats EXCEPT !.raises = "TypeError"]
     ELSE LET entry == parsed.value.value
          IN IF "timestamp" \notin DOMAIN entry THEN stats
             ELSE LET entry_time == fromisoformat(entry.timestamp)
                  IN IF entry_time.raises # ""
                       THEN [stats EXCEPT !.raises = entry_time.raises]
                     ELSE IF entry_time.value < cutoff_time THEN stats
                     ELSE LET mx == IF "mx_host" \in DOMAIN entry
                                      THEN entry.mx_host ELSE "unknown"
                              ok == "success" \in DOMAIN entry /\ entry.success
                          IN [stats EXCEPT
                                !.total_checks = @ + 1,
                                !.total_success = IF ok THEN @ + 1 ELSE @,
                                !.checks_by_mx[mx] =
                                   [total |-> @.total + 1,
                                    success |-> IF ok THEN @.success + 1 ELSE @.success],
                                !.hosts = IF stats.checks_by_mx[mx].total = 0
                                            THEN Append(@, mx) ELSE @]

\* Lines 201-227: the lines of the file from the k-th on, in order; an
\* exception that is not caught ends the loop
RECURSIVE ReadLines(_, _, _, _)
ReadLines(file, k, stats, cutoff_time) ==
  IF k > Len(file) \/ stats.raises # "" THEN stats
  ELSE ReadLines(file, k + 1, ReadLine(stats, file[k], cutoff_time), cutoff_time)

\* list.sort(key=total_checks, reverse=True) is stable: an element goes behind
\* the elements with as many checks
RECURSIVE InsertByChecks(_, _)
InsertByChecks(x, sorted) ==
  IF sorted = <<>> THEN <<x>>
  ELSE IF Head(sorted).total_checks >= x.total_checks
    THEN <<Head(sorted)>> \o InsertByChecks(x, Tail(sorted))
  ELSE <<x>> \o sorted

RECURSIVE SortByChecks(_)
SortByChecks(list) ==
  IF list = <<>> THEN <<>>
  ELSE InsertByChecks(list[Len(list)], SortByChecks(SubSeq(list, 1, Len(list) - 1)))

\* get_smtp_stats(log_file, last_n_hours) called at time `time`: the dict it
\* returns, or the exception it raises.  An empty file stands for a missing
\* one as well.  The rates keep the counts they are computed from; the
\* averages of the response times and the flags derived from them are not
\* modelled.
get_smtp_stats(file, time, last_n_hours) ==
  LET cutoff_time == time - last_n_hours
      stats == ReadLines(file, 1, NoStats, cutoff_time)
      mx_stats == [k \in 1..Len(stats.hosts) |->
                     [mx_host |-> stats.hosts[k],
                      total_checks |-> stats.checks_by_mx[stats.hosts[k]].total,
                      success |-> stats.checks_by_mx[stats.hosts[k]].success]]
      ranked == SortByChecks(mx_stats)
  IN IF file = <<>>
       THEN [raises |-> "", value |-> [error |-> "No monitoring data available",
                                       total_checks |-> 0]]
     ELSE IF stats.raises # "" THEN [raises |-> stats.raises]
     ELSE IF stats.total_checks = 0
       THEN [raises |-> "", value |-> [error |-> "No data", total_checks |-> 0]]
     ELSE [raises |-> "",
           value |-> [period_hours |-> last_n_hours,
                      total_checks |-> stats.total_checks,
                      total_success |-> stats.total_success,
                      mx_servers |-> SubSeq(ranked, 1, IF Len(ranked) < TopHosts
                                                         THEN Len(ranked) ELSE TopHosts)]]

\* get_smtp_stats has not been called
NoReport == [called |-> FALSE]

Pipelines == 1..Len(emails)

\* validate_single's `email` after line 516
Email(i) == Normalize(emails[i])

\* The states in which a coroutine is inside the `async with` body
ActiveStates == {"mx", "rate_limit", "smtp", "backoff"}

NoResult == ValidationResult(<<>>, "", "", "", 0)

\* No single handshake has been run
NoProbe == [exc |-> "", status |-> "", details |-> "", wire |-> <<>>,
            connected |-> FALSE, open |-> FALSE]

\* The defaults of __init__ (lines 208 and 210), in tenths of a second, and
\* the rate-limit delays tried: none and the default
DefaultRateLimitDelay == 1
DefaultRetryDelay == 20
RateLimitDelays == {0, DefaultRateLimitDelay}

BatchInputs == UNION {[1..n -> Emails] : n \in 1..MaxBatch}

\* The defaults of TelegramSender.__init__ (src/scripts/tg_sender.py lines
\* 85-86); the delay is in seconds
TgDefaultMaxRetries == 3
TgRetryDelay == 2

\* _make_request_with_retry has not returned
NoReturn == [success |-> FALSE, data |-> [error |-> ""]]

\* A TelegramSender as api.py and main() construct it, not yet used
TelegramIdle ==
  /\ tg_max_retries = TgDefaultMaxRetries
  /\ tg_pc = "idle"
  /\ tg_attempt = 0
  /\ tg_ret = NoReturn
  /\ tg_heard = <<>>
  /\ tg_slept = <<>>

\* The validator as constructed, about to validate one of `inputs`
Begin(inputs) ==
  /\ emails \in inputs
  /\ max_concurrent \in 1..MaxConcurrent
  /\ max_retries \in 0..MaxRetries
  /\ rate_limit_delay \in RateLimitDelays
  /\ retry_delay = DefaultRetryDelay
  /\ slept = [i \in Pipelines |-> <<>>]
  /\ batch = "running"
  /\ results = <<>>
  /\ finished = <<>>
  /\ sem = max_concurrent
  /\ pc = [i \in Pipelines |-> "pending"]
  /\ mx_host = [i \in Pipelines |-> ""]
  /\ attempt = [i \in Pipelines |-> 0]
  /\ last_error = [i \in Pipelines |-> "none"]
  /\ error_type = [i \in Pipelines |-> "unbound"]
  /\ thr = [i \in Pipelines |-> "idle"]
  /\ ret = [i \in Pipelines |-> NoResult]
  /\ checks = [h \in Hosts |-> NoChecks]
  /\ logfile = <<>>
  /\ conn = [i \in Pipelines |-> FALSE]
  /\ mxCalls = [i \in Pipelines |-> 0]
  /\ rcCalls = [h \in Hosts |-> 0]
  /\ hsCount = [i \in Pipelines |-> 0]
  /\ verdict = [i \in Pipelines |-> ""]
  /\ opened = [i \in Pipelines |-> FALSE]
  /\ heard = [i \in Pipelines |-> <<>>]
  /\ script = Accepting
  /\ probe = NoProbe
  /\ request = NoRequest
  /\ response = NoResponse
  /\ now = 0
  /\ report = NoReport

\* A batch validated with the settings every caller in the repository uses
Init ==
  /\ Begin(BatchInputs)
  /\ rate_limit_delay = DefaultRateLimitDelay
  /\ TelegramIdle

\* -------------------------------------------------------------- the semaphore
\* A semaphore that lets acquire() go on with no permit left
CanAcquireAtZero(value) == value >= 0

\* asyncio.Semaphore: acquire() goes on only while a permit is free
CanAcquire(value) == value > 0
Acquire(value) == value - 1
Release(value) == value + 1

\* A pipeline returns `record`: the `async with` block is left and the permit
\* goes back.  `value` is the semaphore's value while the pipeline runs.
Return(i, record, value) ==
  /\ pc' = [pc EXCEPT ![i] = "done"]
  /\ ret' = [ret EXCEPT ![i] = record]
  /\ finished' = Append(finished, i)
  /\ sem' = Release(value)

\* An exception that leaves validate_single with the permit still taken, as
\* after acquire() with no release() in a finally clause
PropagateHoldingPermit(i, value) ==
  /\ pc' = [pc EXCEPT ![i] = "raised"]
  /\ sem' = value
  /\ UNCHANGED <<ret, finished>>

\* An exception leaves validate_single: the `async with` block gives the permit back
Propagate(i, value) ==
  /\ pc' = [pc EXCEPT ![i] = "raised"]
  /\ sem' = Release(value)
  /\ UNCHANGED <<ret, finished>>

\* The permit guarding the network step only: it is given back for the
\* time of the backoff sleep
SuspendFreeInBackoff(i, at, value) ==
  /\ pc' = [pc EXCEPT ![i] = at]
  /\ sem' = IF at = "backoff" THEN Release(value) ELSE value
  /\ UNCHANGED <<ret, finished>>

\* The coroutine suspends at its next await, keeping its permit
Suspend(i, at, value) ==
  /\ pc' = [pc EXCEPT ![i] = at]
  /\ sem' = value
  /\ UNCHANGED <<ret, finished>>

\* ------------------------------------------------------ smtp_verify_with_retry
\* The status after the loop without the branches on last_error
ExhaustedStatusFlat(lastError) == "SERVER_UNAVAILABLE"

\* Lines 381-389: the status reported when the loop has ended without a return
ExhaustedStatus(lastError) ==
  IF lastError = "timeout" THEN "TIMEOUT"
  ELSE IF lastError = "refused" THEN "CONNECTION_REFUSED"
  ELSE "SERVER_UNAVAILABLE"

\* Lines 377-407, the code after the retry loop.  `writes` says whether the
\* log write succeeds.  The value: whether an exception leaves the function,
\* the monitor and the log afterwards, and the ValidationResult returned.
\* With error_type never assigned (the loop body never ran) line 379 raises
\* UnboundLocalError before record_check is called; `calls` is the number of
\* record_check calls made.
AfterLoop(i, lastError, errorType, monitor, file, writes) ==
  IF errorType = "unbound"
    THEN [raised |-> TRUE, checks |-> monitor, file |-> file, result |-> NoResult,
          calls |-> 0]
  ELSE
    LET recorded == record_check(monitor, mx_host'[i], FALSE, errorType)
        status == ExhaustedStatus(lastError)
    IN IF writes
         THEN [raised |-> FALSE, checks |-> recorded,
               file |-> log_smtp_check(file, Email(i), mx_host'[i], status,
                                       max_retries, lastError),
               result |-> ValidationResult(Email(i), status, "exhausted",
                                           mx_host'[i], max_retries),
               calls |-> 1]
         ELSE [raised |-> TRUE, checks |-> recorded, file |-> file, result |-> NoResult,
               calls |-> 1]

\* The coroutine goes on with what the code after the loop produced;
\* `earlier` is the number of record_check calls the step made before it
LeaveLoop(i, after, earlier, value) ==
  /\ checks' = after.checks
  /\ rcCalls' = [rcCalls EXCEPT ![mx_host'[i]] = @ + earlier + after.calls]
  /\ logfile' = after.file
  /\ IF after.raised THEN Propagate(i, value) ELSE Return(i, after.result, value)

\* range(1, self.max_retries + 2): a loop that runs once too often
InRangeOneMore(n, maxRetries) == 1 <= n /\ n <= maxRetries + 1

\* Line 309, `for attempt in range(1, self.max_retries + 1)`: whether n is a
\* value of the range
InRange(n, maxRetries) == 1 <= n /\ n <= maxRetries

\* Lines 350 and 365, `if attempt < self.max_retries`: whether the backoff
\* sleep and the `continue` follow a timeout or a refused connection
SleepsBackoff(n, maxRetries) == n < maxRetries

\* 2 ** attempt: the exponent of the retries of tg_sender.py
BackoffFromTwo(n) == retry_delay * 2 ^ n

\* Lines 351 and 366: delay = self.retry_delay * (2 ** (attempt - 1))
Backoff(n) == retry_delay * 2 ^ (n - 1)

\* A loop that never sleeps before the handshake
RateLimitedNever(delay) == FALSE

\* Line 312, `if self.rate_limit_delay > 0`
RateLimited(delay) == delay > 0

\* An asyncio.sleep(delay) of the pipeline: the rate-limit sleep before
\* attempt n or the backoff sleep after it
Sleep(kind, n, delay) == [kind |-> kind, attempt |-> n, delay |-> delay]

\* The for statement takes its next value: the next iteration starts with
\* the rate-limit sleep of line 313, when rate_limit_delay is positive, and
\* hands _smtp_check_sync to the executor, or the range is used up and the
\* code after the loop runs.  lastError and errorType are the locals at that
\* point.
NextIteration(i, lastError, errorType) ==
  IF InRange(attempt[i] + 1, max_retries)
    THEN /\ attempt' = [attempt EXCEPT ![i] = @ + 1]
         /\ IF RateLimited(rate_limit_delay)
              THEN /\ Suspend(i, "rate_limit", sem)
                   /\ slept' = [slept EXCEPT ![i] = Append(@, Sleep("rate_limit", attempt'[i],
                                                                    rate_limit_delay))]
                   /\ thr' = [thr EXCEPT ![i] = "idle"]
              ELSE /\ Suspend(i, "smtp", sem)
                   /\ thr' = [thr EXCEPT ![i] = "smtp"]
                   /\ UNCHANGED slept
         /\ UNCHANGED shared
    ELSE /\ UNCHANGED <<attempt, slept>>
         /\ thr' = [thr EXCEPT ![i] = "idle"]
         /\ \E writes \in BOOLEAN :
              LeaveLoop(i, AfterLoop(i, lastError, errorType, checks, logfile, writes), 0, sem)

\* ---------------------------------------------------------------- validate_single
\* Lines 515-533: take a permit, normalise, check the syntax, hand the MX
\* lookup to the executor.  No await suspends the coroutine before line 529.
Start(i) ==
  /\ pc[i] = "pending"
  /\ CanAcquire(sem)
  /\ IF ~validate_syntax(Email(i))
       THEN /\ Return(i, ValidationResult(Email(i), "INVALID_SYNTAX", "invalid_format", "", 1),
                      Acquire(sem))
            /\ UNCHANGED thr
       ELSE /\ Suspend(i, "mx", Acquire(sem))
            /\ thr' = [thr EXCEPT ![i] = "mx"]
  /\ UNCHANGED <<config, bench, telegram, http, clock, heard, slept, batch, results, locals, shared, probes, mxCalls>>

\* Lines 529-544 and 293-313: the executor thread runs get_mx_records and the
\* coroutine resumes with its value: the resolver's exception propagates, no
\* record gives NO_MX, else smtp_verify_with_retry is entered: catch-all
\* short cut, or the first loop iteration, which sleeps rate_limit_delay.
MxLookup(i) ==
  /\ pc[i] = "mx"
  /\ mxCalls' = [mxCalls EXCEPT ![i] = @ + 1]
  /\ \E outcome \in DnsOutcomes :
       LET mx_records == get_mx_records(DomainOf(Email(i)), outcome)
       IN /\ heard' = [heard EXCEPT ![i] = Append(@, [dns |-> outcome,
                                                       raised |-> mx_records.raised,
                                                       records |-> mx_records.records])]
          /\ IF mx_records.raised
               THEN /\ Propagate(i, sem)
                    /\ thr' = [thr EXCEPT ![i] = "idle"]
                    /\ UNCHANGED <<locals, shared, slept>>
             ELSE IF mx_records.records = <<>>
               THEN /\ Return(i, ValidationResult(Email(i), "NO_MX", "no_mx_records", "", 1),
                              sem)
                    /\ thr' = [thr EXCEPT ![i] = "idle"]
                    /\ UNCHANGED <<locals, shared, slept>>
             ELSE
               /\ mx_host' = [mx_host EXCEPT ![i] = mx_records.records[1][2]]
               /\ IF is_catch_all_domain(DomainOf(Email(i)))
                    THEN /\ Return(i, ValidationResult(Email(i), "CATCH_ALL",
                                                       "catch_all_policy", mx_host'[i], 1), sem)
                         /\ thr' = [thr EXCEPT ![i] = "idle"]
                         /\ UNCHANGED <<attempt, last_error, error_type, shared, slept>>
                  ELSE /\ NextIteration(i, last_error[i], error_type[i])
                       /\ UNCHANGED <<last_error, error_type>>
  /\ UNCHANGED <<config, bench, telegram, http, clock, batch, results, probes>>

\* Lines 312-321: the rate-limit sleep is over; _smtp_check_sync goes to the executor
WakeRateLimit(i) ==
  /\ pc[i] = "rate_limit"
  /\ Suspend(i, "smtp", sem)
  /\ thr' = [thr EXCEPT ![i] = "smtp"]
  /\ UNCHANGED <<config, bench, telegram, http, clock, heard, slept, batch, results, locals, shared, probes, mxCalls>>

\* What the executor thread leaves behind when _smtp_check_sync ended as `r`
Probed(i, r) ==
  /\ hsCount' = [hsCount EXCEPT ![i] = @ + 1]
  /\ conn' = [conn EXCEPT ![i] = r.open]
  /\ opened' = [opened EXCEPT ![i] = r.connected]
  /\ verdict' = [verdict EXCEPT ![i] = IF r.exc = "none" THEN r.status ELSE r.exc]

\* Lines 316-375: the executor thread runs _smtp_check_sync and the coroutine
\* resumes with its outcome.  A returned result is recorded, logged and
\* returned; a timeout or a refused connection sleeps the backoff delay and
\* continues while attempts are left; an exception of the log write is
\* caught by `except Exception` and breaks out of the loop.
Handshake(i) ==
  /\ pc[i] = "smtp"
  /\ mx_host' = mx_host
  /\ \E r \in SmtpOutcomes :
       /\ Probed(i, r)
       /\ heard' = [heard EXCEPT ![i] = Append(@, [exc |-> r.exc, status |-> r.status,
                                                       details |-> r.details,
                                                       host |-> mx_host[i]])]
       /\ IF r.exc = "none"
            THEN LET recorded == record_check(checks, mx_host[i], TRUE, "none")
                     result == ValidationResult(Email(i), r.status, r.details,
                                                mx_host[i], attempt[i])
                 IN \E writes \in BOOLEAN :
                      IF writes
                        THEN /\ checks' = recorded
                             /\ rcCalls' = [rcCalls EXCEPT ![mx_host[i]] = @ + 1]
                             /\ logfile' = log_smtp_check(logfile, Email(i), mx_host[i],
                                                          result.status, attempt[i], "")
                             /\ Return(i, result, sem)
                             /\ thr' = [thr EXCEPT ![i] = "idle"]
                             /\ UNCHANGED <<attempt, last_error, error_type, slept>>
                        ELSE /\ last_error' = [last_error EXCEPT ![i] = "error"]
                             /\ error_type' = [error_type EXCEPT ![i] = "error"]
                             /\ \E again \in BOOLEAN :
                                  LeaveLoop(i, AfterLoop(i, "error", "error", recorded,
                                                         logfile, again), 1, sem)
                             /\ thr' = [thr EXCEPT ![i] = "idle"]
                             /\ UNCHANGED <<attempt, slept>>
          ELSE
            /\ last_error' = [last_error EXCEPT ![i] = r.exc]
            /\ error_type' = [error_type EXCEPT ![i] = r.exc]
            /\ IF SleepsBackoff(attempt[i], max_retries)
                 THEN /\ Suspend(i, "backoff", sem)
                      /\ slept' = [slept EXCEPT ![i] = Append(@, Sleep("backoff", attempt[i],
                                                                       Backoff(attempt[i])))]
                      /\ thr' = [thr EXCEPT ![i] = "idle"]
                      /\ UNCHANGED <<attempt, shared>>
                 ELSE NextIteration(i, r.exc, r.exc)
  /\ UNCHANGED <<config, bench, telegram, http, clock, batch, results, mxCalls>>

\* Lines 353-354 and 367-368: the backoff sleep is over and `continue`
\* goes to the for statement
WakeBackoff(i) ==
  /\ pc[i] = "backoff"
  /\ NextIteration(i, last_error[i], error_type[i])
  /\ UNCHANGED <<config, bench, telegram, http, clock, heard, batch, results, mx_host, last_error,
                 error_type, probes, mxCalls>>

\* ------------------------------------------------------------------ validate_batch
\* The results in the order the pipelines completed, as a loop over
\* asyncio.as_completed(tasks) would collect them
GatherAsCompleted(returned, order) == [k \in 1..Len(order) |-> returned[order[k]]]

\* One task per distinct address, as `for email in set(emails)` would make
\* them: an address given twice gets one record
GatherDistinct(returned, order) ==
  LET first == SelectSeq([k \in 1..Len(order) |-> k],
                         LAMBDA k : \A j \in 1..(k - 1) : returned[j].email # returned[k].email)
  IN [n \in 1..Len(first) |-> returned[first[n]]]

\* asyncio.gather(*tasks): the results of the awaitables, in the order of the
\* awaitables (tqdm's gather gives the same list)
Gather(returned, order) == [k \in 1..Len(order) |-> returned[k]]

\* Lines 559-571: every pipeline has returned; gather hands over the list
BatchReturn ==
  /\ batch = "running"
  /\ \A i \in Pipelines : pc[i] = "done"
  /\ batch' = "returned"
  /\ results' = Gather(ret, finished)
  /\ UNCHANGED <<config, bench, telegram, http, clock, heard, slept, finished, sem, pc, locals, thr, ret, shared, probes, mxCalls>>

\* gather without return_exceptions: the first exception of a pipeline is
\* raised out of validate_batch; asyncio.run (src/api.py line 131) then
\* cancels the tasks still pending.  A cancelled coroutine leaves its
\* `async with` block; an executor job that already runs is not interrupted.
BatchAbort ==
  /\ batch = "running"
  /\ \E i \in Pipelines : pc[i] = "raised"
  /\ batch' = "raised"
  /\ pc' = [i \in Pipelines |-> IF pc[i] \in {"done", "raised"} THEN pc[i] ELSE "cancelled"]
  /\ sem' = sem + Cardinality({i \in Pipelines : pc[i] \in ActiveStates})
  /\ UNCHANGED <<config, bench, telegram, http, clock, heard, slept, results, finished, locals, thr, ret, shared, probes, mxCalls>>

\* The executor job of a cancelled pipeline runs to its end; nobody reads its value
OrphanJob(i) ==
  /\ pc[i] = "cancelled"
  /\ thr[i] # "idle"
  /\ thr' = [thr EXCEPT ![i] = "idle"]
  /\ IF thr[i] = "mx"
       THEN /\ mxCalls' = [mxCalls EXCEPT ![i] = @ + 1]
            /\ UNCHANGED probes
       ELSE /\ \E r \in SmtpOutcomes : Probed(i, r)
            /\ UNCHANGED mxCalls
  /\ UNCHANGED <<config, bench, telegram, http, clock, heard, slept, batch, results, finished, sem, pc, locals, ret, shared>>

Next ==
  \/ \E i \in Pipelines : Start(i)
  \/ \E i \in Pipelines : MxLookup(i)
  \/ \E i \in Pipelines : WakeRateLimit(i)
  \/ \E i \in Pipelines : Handshake(i)
  \/ \E i \in Pipelines : WakeBackoff(i)
  \/ \E i \in Pipelines : OrphanJob(i)
  \/ BatchReturn
  \/ BatchAbort

Spec == Init /\ [][Next]_vars

\* The batch under a fair scheduler: the event loop and the executor run
\* every coroutine and job that is ready, so a step that can be taken is
\* taken in the end
SpecFair == Init /\ [][Next]_vars /\ WF_vars(Next)

\* One validation on its own: validate_batch with a single address.  No
\* sibling exists, so no executor job is ever orphaned.
InitSingle ==
  /\ Begin({<<e>> : e \in SingleEmails})
  /\ TelegramIdle

NextSingle ==
  \/ \E i \in Pipelines : Start(i)
  \/ \E i \in Pipelines : MxLookup(i)
  \/ \E i \in Pipelines : WakeRateLimit(i)
  \/ \E i \in Pipelines : Handshake(i)
  \/ \E i \in Pipelines : WakeBackoff(i)
  \/ BatchReturn
  \/ BatchAbort

SpecSingle == InitSingle /\ [][NextSingle]_vars

\* One run of _smtp_check_sync on its own, against every server behaviour.
\* Nothing else of the validator moves.
InitProbe ==
  /\ emails = <<E_probe>>
  /\ max_concurrent = 1
  /\ max_retries = 1
  /\ rate_limit_delay = DefaultRateLimitDelay
  /\ retry_delay = DefaultRetryDelay
  /\ slept = [i \in Pipelines |-> <<>>]
  /\ batch = "running"
  /\ results = <<>>
  /\ finished = <<>>
  /\ sem = max_concurrent
  /\ pc = [i \in Pipelines |-> "pending"]
  /\ mx_host = [i \in Pipelines |-> ""]
  /\ attempt = [i \in Pipelines |-> 0]
  /\ last_error = [i \in Pipelines |-> "none"]
  /\ error_type = [i \in Pipelines |-> "unbound"]
  /\ thr = [i \in Pipelines |-> "idle"]
  /\ ret = [i \in Pipelines |-> NoResult]
  /\ checks = [h \in Hosts |-> NoChecks]
  /\ logfile = <<>>
  /\ conn = [i \in Pipelines |-> FALSE]
  /\ mxCalls = [i \in Pipelines |-> 0]
  /\ rcCalls = [h \in Hosts |-> 0]
  /\ hsCount = [i \in Pipelines |-> 0]
  /\ verdict = [i \in Pipelines |-> ""]
  /\ opened = [i \in Pipelines |-> FALSE]
  /\ heard = [i \in Pipelines |-> <<>>]
  /\ script \in Scripts
  /\ probe = NoProbe
  /\ TelegramIdle
  /\ request = NoRequest
  /\ response = NoResponse
  /\ now = 0
  /\ report = NoReport

\* _smtp_check_sync(email, mx_host) runs against the server
RunProbe ==
  /\ probe = NoProbe
  /\ probe' = _smtp_check_sync(script)
  /\ UNCHANGED <<config, telegram, http, clock, script, heard, slept, batch, results, finished, sem, pc, locals, thr, ret,
                 shared, probes, mxCalls>>

SpecProbe == InitProbe /\ [][RunProbe]_vars

\* The monitor on its own: record_check is called again and again with every
\* kind of result, up to MaxChecks times, all for one host
InitMonitor ==
  /\ Begin({<<E_probe>>})
  /\ max_concurrent = 1
  /\ max_retries = 1
  /\ rate_limit_delay = DefaultRateLimitDelay
  /\ TelegramIdle

\* The error_type arguments record_check is called with; "none" is the
\* default None of a successful check
ErrorTypes == {"none", "timeout", "refused", "error"}

\* self.monitor.record_check(mx_host, success, response_time, error_type)
RecordCheck(h, success, kind) ==
  /\ checks[h].total < MaxChecks
  /\ \A g \in Hosts \ {h} : checks[g].total = 0
  /\ checks' = record_check(checks, h, success, kind)
  /\ rcCalls' = [rcCalls EXCEPT ![h] = @ + 1]
  /\ UNCHANGED <<config, bench, telegram, http, clock, heard, slept, batch, results, finished, sem, pc, locals, thr, ret,
                 logfile, probes, mxCalls>>

NextMonitor ==
  \E h \in Hosts : \E kind \in ErrorTypes : RecordCheck(h, kind = "none", kind)

SpecMonitor == InitMonitor /\ [][NextMonitor]_vars

\* POST /validate served by validate_emails (src/api.py): the body is
\* screened, the validator is built from it, validate_batch runs one address
\* and the records are sent back
OptionsOf(list) ==
  {JDict([emails |-> JList(list)]),
   JDict([emails |-> JList(list), max_retries |-> JInt(1)]),
   JDict([emails |-> JList(list), max_concurrent |-> JInt(1), max_retries |-> JInt(1)])}

\* The bodies posted: no object, objects without emails, arrays and strings,
\* emails that is no array, a list one longer than MaxEmails, and lists of no
\* and of one address with and without settings
Requests ==
  {JNull, JDict(<<>>), JDict([max_retries |-> JInt(1)]),
   JList(<<E_probe>>), JList(<<EmailsKey>>), JStr(EmailsKey),
   JDict([emails |-> JNull]), JDict([emails |-> JStr(E_probe)]),
   JDict([emails |-> JList([k \in 1..(MaxEmails + 1) |-> E_nosyntax])])}
  \cup UNION {OptionsOf(list) : list \in {<<>>} \cup {<<e>> : e \in Emails}}

InitApi ==
  /\ request \in Requests
  /\ response = NoResponse
  /\ now = 0
  /\ report = NoReport
  /\ emails = <<>>
  /\ max_concurrent = DefaultMaxConcurrent
  /\ max_retries = DefaultMaxRetries
  /\ rate_limit_delay = DefaultRateLimitDelay
  /\ retry_delay = DefaultRetryDelay
  /\ slept = <<>>
  /\ batch = "idle"
  /\ results = <<>>
  /\ finished = <<>>
  /\ sem = max_concurrent
  /\ pc = <<>>
  /\ mx_host = <<>>
  /\ attempt = <<>>
  /\ last_error = <<>>
  /\ error_type = <<>>
  /\ thr = <<>>
  /\ ret = <<>>
  /\ checks = [h \in Hosts |-> NoChecks]
  /\ logfile = <<>>
  /\ conn = <<>>
  /\ mxCalls = <<>>
  /\ rcCalls = [h \in Hosts |-> 0]
  /\ hsCount = <<>>
  /\ verdict = <<>>
  /\ opened = <<>>
  /\ heard = <<>>
  /\ script = Accepting
  /\ probe = NoProbe
  /\ TelegramIdle

\* Lines 87-108 and 149-153: the body does not pass, validate_emails answers
\* at once
Refuse ==
  /\ request # NoRequest
  /\ response = NoResponse
  /\ batch = "idle"
  /\ Screen(request) # "passes"
  /\ response' = CASE Screen(request) = "missing" -> BadRequest("Missing required field: emails")
                   [] Screen(request) = "not_array" -> BadRequest("emails must be an array")
                   [] Screen(request) = "too_many" -> BadRequest("Maximum 1000 emails per request")
                   [] OTHER -> ServerError
  /\ UNCHANGED <<config, bench, telegram, clock, request, batch, results, finished, sem, pc, locals, thr, ret,
                 shared, probes, mxCalls, heard, slept>>

\* Lines 112-133: the validator is built from the body and asyncio.run
\* starts validate_batch(emails)
Invoke ==
  /\ request # NoRequest
  /\ response = NoResponse
  /\ batch = "idle"
  /\ Screen(request) = "passes"
  /\ emails' = request.value.emails.value
  /\ max_concurrent' = Setting(request, "max_concurrent", DefaultMaxConcurrent)
  /\ max_retries' = Setting(request, "max_retries", DefaultMaxRetries)
  /\ sem' = max_concurrent'
  /\ batch' = "running"
  /\ LET tasks == 1..Len(emails')
     IN /\ pc' = [i \in tasks |-> "pending"]
        /\ mx_host' = [i \in tasks |-> ""]
        /\ attempt' = [i \in tasks |-> 0]
        /\ last_error' = [i \in tasks |-> "none"]
        /\ error_type' = [i \in tasks |-> "unbound"]
        /\ thr' = [i \in tasks |-> "idle"]
        /\ ret' = [i \in tasks |-> NoResult]
        /\ conn' = [i \in tasks |-> FALSE]
        /\ mxCalls' = [i \in tasks |-> 0]
        /\ hsCount' = [i \in tasks |-> 0]
        /\ verdict' = [i \in tasks |-> ""]
        /\ opened' = [i \in tasks |-> FALSE]
        /\ heard' = [i \in tasks |-> <<>>]
        /\ slept' = [i \in tasks |-> <<>>]
  /\ UNCHANGED <<rate_limit_delay, retry_delay, bench, telegram, http, clock, results, finished, shared>>

\* Lines 131-153: validate_batch returned and the records are serialized, or
\* it raised and `except Exception` answers 500
Answer ==
  /\ request # NoRequest
  /\ response = NoResponse
  /\ batch \in {"returned", "raised"}
  /\ response' = IF batch = "returned" THEN Ok(results) ELSE ServerError
  /\ UNCHANGED <<config, bench, telegram, clock, request, batch, results, finished, sem, pc, locals, thr, ret,
                 shared, probes, mxCalls, heard, slept>>

NextApi ==
  \/ Refuse
  \/ Invoke
  \/ \E i \in Pipelines : Start(i)
  \/ \E i \in Pipelines : MxLookup(i)
  \/ \E i \in Pipelines : WakeRateLimit(i)
  \/ \E i \in Pipelines : Handshake(i)
  \/ \E i \in Pipelines : WakeBackoff(i)
  \/ BatchReturn
  \/ BatchAbort
  \/ Answer

SpecApi == InitApi /\ [][NextApi]_vars

\* The monitoring log on its own: lines are appended as time passes, by
\* log_smtp_check and by others, and then get_smtp_stats reads the file
MaxLines == 3
MaxHours == 2

InitStats ==
  /\ Begin({<<E_probe>>})
  /\ max_concurrent = 1
  /\ max_retries = 1
  /\ rate_limit_delay = DefaultRateLimitDelay
  /\ TelegramIdle

\* An hour passes
Tick ==
  /\ report = NoReport
  /\ now < MaxHours
  /\ now' = now + 1
  /\ UNCHANGED <<config, bench, telegram, http, report, batch, results, finished, sem, pc, locals,
                 thr, ret, shared, probes, mxCalls, heard, slept>>

\* log_smtp_check(email, mx_host, status, attempts, ...)
WriteEntry(host, status) ==
  /\ report = NoReport
  /\ Len(logfile) < MaxLines
  /\ logfile' = log_smtp_check(logfile, Normalize(E_probe), host, status, 1, "")
  /\ UNCHANGED <<config, bench, telegram, http, clock, batch, results, finished, sem, pc, locals,
                 thr, ret, checks, rcCalls, probes, mxCalls, heard, slept>>

\* Lines of the file that log_smtp_check did not write: no JSON document, a
\* document that is no object, objects without a timestamp, with a timestamp
\* that is no date, and with a timestamp only
ForeignLines ==
  {TornLine, json_dumps(JNull), json_dumps(JDict([email |-> Normalize(E_probe)])),
   json_dumps(JDict([timestamp |-> BadStamp, mx_host |-> "mx1.x.io", success |-> TRUE])),
   json_dumps(JDict([timestamp |-> now]))}

WriteForeign(line) ==
  /\ report = NoReport
  /\ Len(logfile) < MaxLines
  /\ logfile' = Append(logfile, line)
  /\ UNCHANGED <<config, bench, telegram, http, clock, batch, results, finished, sem, pc, locals,
                 thr, ret, checks, rcCalls, probes, mxCalls, heard, slept>>

\* get_smtp_stats(last_n_hours = hours)
Query(hours) ==
  /\ report = NoReport
  /\ report' = [called |-> TRUE, last_n_hours |-> hours,
                answer |-> get_smtp_stats(logfile, now, hours)]
  /\ UNCHANGED <<config, bench, telegram, http, now, batch, results, finished, sem, pc, locals,
                 thr, ret, shared, probes, mxCalls, heard, slept>>

NextStats ==
  \/ Tick
  \/ \E host \in {"mx1.x.io", "mx.me.com"} :
       \E status \in {"VALID", "SERVER_UNAVAILABLE"} : WriteEntry(host, status)
  \/ \E line \in ForeignLines : WriteForeign(line)
  \/ \E hours \in 1..MaxHours : Query(hours)

SpecStats == InitStats /\ [][NextStats]_vars

\* ------------------------------------------- src/scripts/tg_sender.py
\* TelegramSender._make_request_with_retry on its own.  The Telegram API and
\* the network are the environment: each requests.post call ends in one of
\* TgReplies.
TgMaxRetries == 3

\* What the rest of the program holds while the sender works
validator == <<config, bench, http, clock, heard, slept, batch, results, finished, sem, pc,
               locals, thr, ret, shared, probes, mxCalls>>

\* The values of a response's Retry-After header: none, a number of seconds,
\* an HTTP date
RetryAfterHeaders == {"absent", "5", "Wed, 21 Oct 2026 07:28:00 GMT"}

\* int(text) on the header values: the number, or ValueError
ParseInt(text) ==
  IF text = "5" THEN [raises |-> FALSE, value |-> 5] ELSE [raises |-> TRUE, value |-> 0]

\* The ways requests.post ends: an exception of the handlers' classes
\* (Timeout, ConnectionError, any other) or a response
Raised(kind) == [kind |-> kind]
Response(code, body, header) ==
  [kind |-> "response", status_code |-> code, body |-> body, retry_after |-> header]

\* response.json(): an object with ok true, an object with ok false, or no
\* JSON document
Bodies == {"ok_true", "ok_false", "not_json"}

TgReplies ==
  {Raised(k) : k \in {"Timeout", "ConnectionError", "Exception"}}
  \cup {Response(200, b, "absent") : b \in Bodies}
  \cup {Response(c, "ok_false", "absent") : c \in {400, 404, 500, 502, 503}}
  \cup {Response(429, "ok_false", h) : h \in RetryAfterHeaders}

\* What an iteration of the loop ends in: a sleep followed by `continue`, or
\* a return
TgSleep(delay) == [kind |-> "sleep", delay |-> delay]
TgReturn(success, data) == [kind |-> "return", success |-> success, data |-> data]

\* range(self.max_retries + 1): one request more
TgInRangeOneMore(n, maxRetries) == 0 <= n /\ n <= maxRetries

\* Line 125, `for attempt in range(self.max_retries)`: whether n is a value
\* of the range
TgInRange(n, maxRetries) == 0 <= n /\ n < maxRetries

\* `if attempt < self.max_retries`: a sleep after the last attempt as well
TgCanRetryAtLast(n, maxRetries) == n < maxRetries

\* Lines 138, 145, 164, 172 and 183: `if attempt < self.max_retries - 1`
TgCanRetry(n, maxRetries) == n < maxRetries - 1

\* self.retry_delay * (2 ** attempt)
TgBackoff(n) == TgRetryDelay * 2 ^ n

\* response.raise_for_status(): HTTPError for the 4xx and 5xx codes
raise_for_status(code) == 400 <= code /\ code < 600

\* Lines 178-186, `except requests.exceptions.HTTPError`
OnHTTPError(code, n, maxRetries) ==
  IF code < 500 /\ code # 429
    THEN TgReturn(FALSE, [error |-> "HTTPError", status_code |-> code])
  ELSE IF TgCanRetry(n, maxRetries) THEN TgSleep(TgBackoff(n))
  ELSE TgReturn(FALSE, [error |-> "HTTPError"])

\* Lines 134-160, the try block after the response has arrived.  int() of a
\* Retry-After that is no number raises ValueError, which `except Exception`
\* (line 188) turns into a return; int() of the default delay leaves it as
\* it is.
OnResponse(reply, n, maxRetries) ==
  LET code == reply.status_code
      retry_after == IF reply.retry_after = "absent"
                       THEN [raises |-> FALSE, value |-> TgBackoff(n)]
                     ELSE ParseInt(reply.retry_after)
  IN IF code = 429 /\ retry_after.raises THEN TgReturn(FALSE, [error |-> "ValueError"])
     ELSE IF code = 429 /\ TgCanRetry(n, maxRetries) THEN TgSleep(retry_after.value)
     ELSE IF code \in {502, 503} /\ TgCanRetry(n, maxRetries) THEN TgSleep(TgBackoff(n))
     ELSE IF raise_for_status(code) THEN OnHTTPError(code, n, maxRetries)
     ELSE IF reply.body = "not_json" THEN TgReturn(FALSE, [error |-> "JSONDecodeError"])
     ELSE IF reply.body = "ok_true" THEN TgReturn(TRUE, [ok |-> TRUE])
     ELSE TgReturn(FALSE, [ok |-> FALSE])

\* Lines 126-190, one iteration of the loop whose request ended as `reply`
Iteration(reply, n, maxRetries) ==
  IF reply.kind = "Timeout"
    THEN IF TgCanRetry(n, maxRetries) THEN TgSleep(TgBackoff(n))
         ELSE TgReturn(FALSE, [error |-> "Request timeout"])
  ELSE IF reply.kind = "ConnectionError"
    THEN IF TgCanRetry(n, maxRetries) THEN TgSleep(TgBackoff(n))
         ELSE TgReturn(FALSE, [error |-> "Cannot connect to Telegram API"])
  ELSE IF reply.kind = "Exception" THEN TgReturn(FALSE, [error |-> "Exception"])
  ELSE OnResponse(reply, n, maxRetries)

\* The for statement takes its next value n: the next request is made, or
\* the range is used up and lines 192-193 return
TgNextIteration(n) ==
  IF TgInRange(n, tg_max_retries)
    THEN /\ tg_attempt' = n
         /\ tg_pc' = "request"
         /\ UNCHANGED tg_ret
    ELSE /\ tg_pc' = "returned"
         /\ tg_ret' = [success |-> FALSE, data |-> [error |-> "Max retries exceeded"]]
         /\ UNCHANGED tg_attempt

\* A sender with max_retries of its caller's choice
InitTelegram ==
  /\ Begin({<<E_probe>>})
  /\ max_concurrent = 1
  /\ max_retries = 1
  /\ rate_limit_delay = DefaultRateLimitDelay
  /\ tg_max_retries \in 0..TgMaxRetries
  /\ tg_pc = "idle"
  /\ tg_attempt = 0
  /\ tg_ret = NoReturn
  /\ tg_heard = <<>>
  /\ tg_slept = <<>>

\* _make_request_with_retry(url) is called
TgCall ==
  /\ tg_pc = "idle"
  /\ TgNextIteration(0)
  /\ UNCHANGED <<validator, tg_max_retries, tg_heard, tg_slept>>

\* Lines 126-190: the request is sent and ends; the iteration sleeps and
\* continues, or returns
TgRequest ==
  /\ tg_pc = "request"
  /\ \E reply \in TgReplies :
       LET end == Iteration(reply, tg_attempt, tg_max_retries)
       IN /\ tg_heard' = Append(tg_heard, reply)
          /\ IF end.kind = "sleep"
               THEN /\ tg_slept' = Append(tg_slept, [attempt |-> tg_attempt, delay |-> end.delay])
                    /\ tg_pc' = "sleep"
                    /\ UNCHANGED tg_ret
               ELSE /\ tg_pc' = "returned"
                    /\ tg_ret' = [success |-> end.success, data |-> end.data]
                    /\ UNCHANGED tg_slept
  /\ UNCHANGED <<validator, tg_max_retries, tg_attempt>>

\* time.sleep is over and `continue` goes to the for statement
TgWake ==
  /\ tg_pc = "sleep"
  /\ TgNextIteration(tg_attempt + 1)
  /\ UNCHANGED <<validator, tg_max_retries, tg_heard, tg_slept>>

NextTelegram ==
  \/ TgCall
  \/ TgRequest
  \/ TgWake

SpecTelegram == InitTelegram /\ [][NextTelegram]_vars

\* ====================================================================== claims
\* The handshake endings that are a verdict: a returned ValidationResult
FinalOutcomes == {"VALID", "GREYLISTED", "MAILBOX_NOT_FOUND", "SMTP_ERROR"}

\* The handshake endings that are retried: a re-raised exception
RetryableFailures == {"timeout", "refused"}

\* C1: the list validate_batch returns has one record per input address, and
\* the record at position k is the one the pipeline of the k-th input address
\* returned (it carries that address, normalised), whatever the order in
\* which the pipelines completed.
C1_ResultsInInputOrder ==
  batch = "returned" =>
    /\ Len(results) = Len(emails)
    /\ \A k \in Pipelines :
         /\ results[k] = ret[k]
         /\ results[k].email = Normalize(emails[k])

\* C1 witness: a returned batch whose second pipeline completed first and
\* whose two records differ
C1_Witness ==
  /\ batch = "returned"
  /\ finished = <<2, 1>>
  /\ results[1] # results[2]
  /\ results[1].email # results[2].email

\* C2: at no moment are more than max_concurrent pipelines inside the
\* semaphore-guarded body of validate_single.
C2_AtMostNActive ==
  Cardinality({i \in Pipelines : pc[i] \in ActiveStates}) <= max_concurrent

\* C2 witness: more addresses than permits, every permit taken and a pipeline
\* waiting for one
C2_Witness ==
  /\ Len(emails) > max_concurrent
  /\ Cardinality({i \in Pipelines : pc[i] \in ActiveStates}) = max_concurrent
  /\ \E i \in Pipelines : pc[i] = "pending"
  /\ sem = 0

\* C3 (as the specification states it): a pipeline that fails, an unexpected
\* internal error included, never makes validate_batch fail: the batch does
\* not end by raising and no sibling pipeline is cut short.
C3_FailureIsIsolated ==
  \A i \in Pipelines :
    pc[i] = "raised" =>
      /\ batch # "raised"
      /\ \A j \in Pipelines \ {i} : pc[j] # "cancelled"

\* C4: a validation never runs more than max_retries handshakes, and one
\* whose handshakes all ended in a retryable failure (timeout or refused
\* connection) ran exactly max_retries of them and returns a record with
\* attempts = max_retries.
C4_ExactlyMaxRetriesAttempts ==
  \A i \in Pipelines :
    /\ hsCount[i] <= max_retries
    /\ (pc[i] = "done" /\ verdict[i] \in RetryableFailures) =>
         /\ hsCount[i] = max_retries
         /\ ret[i].attempts = max_retries

\* C4 witness: a record returned after two handshakes that both failed
C4_Witness ==
  \E i \in Pipelines :
    /\ pc[i] = "done"
    /\ verdict[i] \in RetryableFailures
    /\ max_retries >= 2
    /\ hsCount[i] = max_retries
    /\ ret[i].attempts = max_retries

C6_VerdictIsFinal ==
  \A i \in Pipelines :
    verdict[i] \in FinalOutcomes =>
      /\ pc[i] \notin {"rate_limit", "smtp", "backoff"}
      /\ pc[i] = "done" =>
           /\ ret[i].status = verdict[i]
           /\ hsCount[i] = 1 => ret[i].attempts = 1

\* C7 (as the specification states it): when the j-th handshake, after j-1
\* retryable failures, ends in a verdict, the record carries that verdict
\* and attempts = j.
C7_VerdictAfterRetries ==
  \A i \in Pipelines :
    (pc[i] = "done" /\ verdict[i] \in FinalOutcomes /\ hsCount[i] >= 2) =>
      /\ ret[i].status = verdict[i]
      /\ ret[i].attempts = hsCount[i]

\* C8: the connection of every handshake that has ended is closed, however
\* the handshake ended; none is open once the batch has returned.
C8_ConnectionsClosed ==
  \A i \in Pipelines : conn[i] = FALSE

\* C8 witness: a handshake that had connected and was left by a timeout
C8_Witness ==
  \E i \in Pipelines :
    /\ hsCount[i] >= 1
    /\ opened[i]
    /\ verdict[i] = "timeout"
    /\ ~conn[i]

\* The outcome the specification assigns to each recipient-announcement
\* reply code the server may give
OutcomeOfCode ==
  [c \in RcptCodes |->
     CASE c = 250 -> "VALID"
       [] c = 421 -> "SMTP_ERROR"
       [] c = 450 -> "GREYLISTED"
       [] c = 451 -> "GREYLISTED"
       [] c = 452 -> "GREYLISTED"
       [] c = 500 -> "MAILBOX_NOT_FOUND"
       [] c = 550 -> "MAILBOX_NOT_FOUND"]

\* The handshake got the server's reply to the recipient announcement
RcptAnswered ==
  /\ probe # NoProbe
  /\ script.rcpt.exc = "none"
  /\ \E k \in 1..Len(probe.wire) : probe.wire[k] = "rcpt"

\* C9: the outcome of a handshake that got a reply to the recipient
\* announcement is a function of the reply code alone: 250 is VALID, 450, 451
\* and 452 are GREYLISTED, 500 and above is MAILBOX_NOT_FOUND, anything else
\* is SMTP_ERROR; what the server said to the greeting, to the sender, or to
\* QUIT does not change it.
C9_OutcomeFromRcptCode ==
  RcptAnswered =>
    /\ probe.exc = "none"
    /\ probe.status = OutcomeOfCode[script.rcpt.code]

\* C9 witness: a reply of 500, the lowest permanent code, after a refused
\* EHLO and a rejected sender, reported as MAILBOX_NOT_FOUND
C9_Witness ==
  /\ RcptAnswered
  /\ script.rcpt.code = 500
  /\ script.ehlo.code = 502
  /\ script.mail.code = 550
  /\ probe.status = "MAILBOX_NOT_FOUND"

\* The address's domain is an entry of the catch-all list
ListedDomain(i) ==
  \E n \in 1..Len(CATCH_ALL_PATTERNS) : DomainOf(Email(i)) = CATCH_ALL_PATTERNS[n]

\* C10 (as the specification states it): for an address whose domain is a
\* listed catch-all provider, the pipeline reports CATCH_ALL, has resolved MX
\* exactly once and has never run a handshake.
C10_ListedIsCatchAll ==
  \A i \in Pipelines :
    (pc[i] = "done" /\ ListedDomain(i)) =>
      /\ ret[i].status = "CATCH_ALL"
      /\ mxCalls[i] = 1
      /\ hsCount[i] = 0

\* C10 (amended): for a well-formed address whose domain is a listed
\* catch-all provider, the pipeline never runs a handshake and resolves MX at
\* most once; when it returns a record it has resolved MX exactly once, and
\* the record is CATCH_ALL with the first MX host when the resolution gave
\* a host, NO_MX without a host when it gave none.
C10_ListedSkipsTransport ==
  \A i \in Pipelines :
    (ListedDomain(i) /\ validate_syntax(Email(i))) =>
      /\ hsCount[i] = 0
      /\ mxCalls[i] <= 1
      /\ pc[i] = "done" =>
           /\ mxCalls[i] = 1
           /\ ret[i].status = (IF mx_host[i] # "" THEN "CATCH_ALL" ELSE "NO_MX")
           /\ ret[i].mx_host = mx_host[i]
           /\ ret[i].attempts = 1

\* C10 witness: a listed address reported CATCH_ALL after one MX resolution
\* and no handshake
C10_Witness ==
  \E i \in Pipelines :
    /\ ListedDomain(i)
    /\ pc[i] = "done"
    /\ ret[i].status = "CATCH_ALL"
    /\ ret[i].mx_host = "mx.me.com"
    /\ mxCalls[i] = 1
    /\ hsCount[i] = 0

\* The input has no "@", or what follows its "@" has no dot followed by a
\* final label of two characters or more
LacksAtOrDottedDomain(i) ==
  LET e == Strip(emails[i])
      d == DomainOf(e)
  IN \/ FirstAt(e) = 0
     \/ ~\E k \in 1..(Len(d) - 2) : d[k] = "." /\ \A j \in (k + 1)..Len(d) : d[j] # "."

\* C11: for an input with no "@" or with no dotted domain ending in a label
\* of two characters or more, the pipeline makes no resolver call and runs
\* no handshake, never raises, and the record it returns is INVALID_SYNTAX.
C11_RejectedMakesNoCalls ==
  \A i \in Pipelines :
    LacksAtOrDottedDomain(i) =>
      /\ mxCalls[i] = 0
      /\ hsCount[i] = 0
      /\ pc[i] \in {"pending", "done"}
      /\ pc[i] = "done" => ret[i].status = "INVALID_SYNTAX"

\* C11 witness: "u@x.i", whose final label has one character, reported
\* INVALID_SYNTAX without a call
C11_Witness ==
  \E i \in Pipelines :
    /\ emails[i] = E_shorttld
    /\ pc[i] = "done"
    /\ ret[i].status = "INVALID_SYNTAX"
    /\ mxCalls[i] = 0
    /\ hsCount[i] = 0

\* The thresholds needs_rotation is asked with: 1/2 (the default), 3/10, 9/10
Thresholds == {<<1, 2>>, <<3, 10>>, <<9, 10>>}

\* C12: whatever record_check calls were made, needs_rotation(host,
\* threshold) is true exactly when the host has 10 recorded checks or more
\* and its success rate is below the threshold or its timeout rate is above
\* 0.3; below 10 checks it is false whatever the failures, and from 10 checks
\* on with less than half of them successful it is true at the default 0.5.
C12_RotationRule ==
  \A h \in Hosts : \A t \in Thresholds :
    LET n == checks[h].total
        ok == checks[h].success
        late == checks[h].timeouts
    IN /\ needs_rotation(checks, h, t) <=>
            (n >= 10 /\ (ok * t[2] < t[1] * n \/ 10 * late > 3 * n))
       /\ n < 10 => ~needs_rotation(checks, h, t)
       /\ (n >= 10 /\ 2 * ok < n) => needs_rotation(checks, h, <<1, 2>>)

\* C12 witness: exactly ten checks of a host, four of them successful and
\* two timed out: rotation is needed at 0.5 and not at 0.3
C12_Witness ==
  \E h \in Hosts :
    /\ checks[h].total = 10
    /\ checks[h].success = 4
    /\ checks[h].timeouts = 2
    /\ needs_rotation(checks, h, <<1, 2>>)
    /\ ~needs_rotation(checks, h, <<3, 10>>)

\* C13 (as the specification states it): a completed validation that went
\* through a host is recorded in the monitor once: as a success when its
\* status is VALID or CATCH_ALL, and as a failure for every other status,
\* counted as a timeout after TIMEOUT and as refused after CONNECTION_REFUSED.
C13_SuccessIffValidOrCatchAll ==
  \A i \in Pipelines :
    (pc[i] = "done" /\ ret[i].mx_host # "") =>
      LET stats == checks[ret[i].mx_host]
      IN /\ stats.total = 1
         /\ IF ret[i].status \in {"VALID", "CATCH_ALL"}
              THEN stats.success = 1 /\ stats.failures = 0
              ELSE /\ stats.success = 0
                   /\ stats.failures = 1
                   /\ stats.timeouts = (IF ret[i].status = "TIMEOUT" THEN 1 ELSE 0)
                   /\ stats.refused = (IF ret[i].status = "CONNECTION_REFUSED" THEN 1 ELSE 0)

\* C14: the list validate_batch returns has as many records as the input
\* has addresses, an address given twice counted twice, and every record
\* has a status of the ValidationStatus enumeration: none is missing or
\* left unset.
C14_OneRecordPerAddress ==
  batch = "returned" =>
    /\ Len(results) = Len(emails)
    /\ \A k \in 1..Len(results) :
         /\ results[k] # NoResult
         /\ results[k].status \in ValidationStatus

\* C14 witness: the same address given twice, two records returned, with
\* different statuses
C14_Witness ==
  /\ batch = "returned"
  /\ Len(emails) = 2
  /\ emails[1] = emails[2]
  /\ Len(results) = 2
  /\ results[1].status = "VALID"
  /\ results[2].status = "TIMEOUT"

\* The pipelines that are over: record returned, exception raised, cancelled
EndStates == {"done", "raised", "cancelled"}

\* C15: a pipeline holds one permit during its whole life.  At any moment
\* the permits taken are those of the pipelines that have started and are
\* not over; no pipeline starts without a free permit, even one that the
\* syntax check ends at once; the semaphore's value does not change while a
\* pipeline goes from one step to the next (MX lookup, rate-limit sleep,
\* handshake, backoff sleep); and it rises only in a step that ends a
\* pipeline.
C15_PermitHeldForLife ==
  /\ [](sem = max_concurrent - Cardinality({i \in Pipelines : pc[i] \in ActiveStates}))
  /\ [][\A i \in Pipelines :
          /\ (pc[i] = "pending" /\ pc'[i] # "pending") => sem > 0
          /\ (pc[i] \in ActiveStates /\ pc'[i] \in ActiveStates /\ pc'[i] # pc[i]) =>
               sem' = sem
          /\ sem' > sem =>
               \E j \in Pipelines : pc[j] \notin EndStates /\ pc'[j] \in EndStates]_vars

\* C15 witness: a pipeline asleep in the backoff after a failed handshake,
\* its permit still taken
C15_Witness ==
  \E i \in Pipelines :
    /\ pc[i] = "backoff"
    /\ hsCount[i] >= 1
    /\ sem = max_concurrent - 1

\* C16 (as the specification states it): in every record mx_host is empty
\* exactly when the status is INVALID_SYNTAX or NO_MX, and with any other
\* status it is the host the MX resolution gave.
C16_MxHostEmptyIffUnresolved ==
  \A i \in Pipelines :
    pc[i] = "done" =>
      /\ ret[i].mx_host = "" <=> ret[i].status \in {"INVALID_SYNTAX", "NO_MX"}
      /\ ret[i].status \notin {"INVALID_SYNTAX", "NO_MX"} => ret[i].mx_host = mx_host[i]

\* C17 (as the specification states it): two validations of the same
\* address that got the same answers from the resolver and from the server,
\* attempt by attempt, return records with the same status, mx_host and
\* attempts.
C17_SameAnswersSameRecord ==
  \A i \in Pipelines : \A j \in Pipelines :
    (pc[i] = "done" /\ pc[j] = "done" /\ emails[i] = emails[j] /\ heard[i] = heard[j]) =>
      /\ ret[i].status = ret[j].status
      /\ ret[i].mx_host = ret[j].mx_host
      /\ ret[i].attempts = ret[j].attempts

\* C18 (as the specification states it): the serialized form of every
\* returned record has the fields email, status, valid, details, mx_host,
\* attempts and response_time_ms, and valid is true exactly when the status
\* is "Valid".
C18_SerializedHasValid ==
  batch = "returned" =>
    \A k \in 1..Len(results) :
      LET out == to_dict(results[k])
      IN /\ DOMAIN out = {"email", "status", "valid", "details", "mx_host",
                          "attempts", "response_time_ms"}
         /\ out.valid = (out.status = "Valid")

\* The body of the request is one the three checks of validate_emails are
\* meant for: it has no field emails, or emails is no list, or the list is
\* longer than MaxEmails
Malformed(data) ==
  \/ data.type # "dict"
  \/ "emails" \notin DOMAIN data.value
  \/ data.value.emails.type # "list"
  \/ Len(data.value.emails.value) > MaxEmails

\* C19 (as the specification states it): a request whose body lacks emails,
\* whose emails is not a list or whose emails has more than 1000 entries is
\* answered with status 400, and validate_batch is never invoked for it: no
\* pipeline exists, so no resolver and no transport call is made.
C19_MalformedIsRejected ==
  (request # NoRequest /\ Malformed(request)) =>
    /\ response.code \in {0, 400}
    /\ batch = "idle"
    /\ emails = <<>>

\* The document of a line, when the line is a log entry with a timestamp
\* that is a date
EntryOf(line) == line.value.value

WellFormed(line) ==
  /\ line.text = "json"
  /\ line.value.type = "dict"
  /\ "timestamp" \in DOMAIN EntryOf(line)
  /\ EntryOf(line).timestamp # BadStamp

\* The lines of the file that are well formed, not older than now - hours,
\* and name the host
Newer(hours) ==
  {k \in DOMAIN logfile : WellFormed(logfile[k]) /\ EntryOf(logfile[k]).timestamp >= now - hours}

NewerOf(hours, host) ==
  {k \in Newer(hours) :
     host = IF "mx_host" \in DOMAIN EntryOf(logfile[k])
              THEN EntryOf(logfile[k]).mx_host ELSE "unknown"}

\* What the answer of get_smtp_stats tells about the host: its total_checks
ReportedTotal(answer, host) ==
  IF "mx_servers" \notin DOMAIN answer.value THEN 0
  ELSE IF \E k \in DOMAIN answer.value.mx_servers : answer.value.mx_servers[k].mx_host = host
    THEN LET k == CHOOSE j \in DOMAIN answer.value.mx_servers :
                    answer.value.mx_servers[j].mx_host = host
         IN answer.value.mx_servers[k].total_checks
  ELSE 0

\* C20 (as the specification states it): get_smtp_stats(last_n_hours = h)
\* returns counts in which every well-formed entry not older than now - h is
\* counted exactly once, in total_checks and in the total of its host, and in
\* which older entries and malformed lines are not counted.
C20_StatsCountTheWindow ==
  report.called =>
    /\ report.answer.raises = ""
    /\ report.answer.value.total_checks = Cardinality(Newer(report.last_n_hours))
    /\ \A host \in StatHosts :
         ReportedTotal(report.answer, host) = Cardinality(NewerOf(report.last_n_hours, host))

\* The lines of the monitoring log written for the address
RecordsFor(e) ==
  Cardinality({k \in DOMAIN logfile : logfile[k].value.value.email = e})

\* The pipelines of the address that returned a record after at least one
\* handshake
ProbedFor(e) ==
  {i \in Pipelines : Email(i) = e /\ pc[i] = "done" /\ hsCount[i] >= 1}

\* The handshake attempts made by the pipelines of the address that returned
AttemptsFor(e) ==
  LET sum[k \in 0..Len(emails)] ==
        IF k = 0 THEN 0
        ELSE sum[k - 1] + (IF Email(k) = e /\ pc[k] = "done" THEN hsCount[k] ELSE 0)
  IN sum[Len(emails)]

Addresses == {Email(i) : i \in Pipelines}

\* C21 (as the specification states it): a validation that made k handshake
\* attempts has appended exactly k records for its address.
C21_OneRecordPerAttempt ==
  \A e \in Addresses :
    (\A i \in Pipelines : Email(i) = e => pc[i] = "done") => RecordsFor(e) = AttemptsFor(e)

\* C21 (amended): the log holds exactly one record for every validation that
\* returned after at least one handshake attempt, however many attempts it
\* made, and none for any other; every step leaves the lines already in the
\* file as they are and in place.
C21_OneRecordPerValidation ==
  /\ [](\A e \in Addresses : RecordsFor(e) = Cardinality(ProbedFor(e)))
  /\ [][/\ Len(logfile') >= Len(logfile)
        /\ SubSeq(logfile', 1, Len(logfile)) = logfile]_vars

\* Two validations have returned, one of them after two handshake attempts,
\* and the log holds their two records
C21_Witness ==
  /\ \A i \in Pipelines : pc[i] = "done"
  /\ \E i \in Pipelines : hsCount[i] = 2
  /\ Len(logfile) = 2

\* The backoff sleeps of the pipeline, in order
BackoffSleeps(i) ==
  LET at == {k \in DOMAIN slept[i] : slept[i][k].kind = "backoff"}
  IN [n \in 1..Cardinality(at) |->
        slept[i][CHOOSE k \in at : Cardinality({j \in at : j <= k}) = n]]

\* The handshake attempts of the pipeline that ended in a timeout or a
\* refused connection
FailedRetryable(i) ==
  {a \in 1..Len(heard[i]) - 1 : heard[i][a + 1].exc \in RetryableFailures}

\* C22: after the failed retryable attempt a with a < max_retries the
\* pipeline sleeps retry_delay * 2^(a-1) once, whether the attempt timed out
\* or was refused, and it sleeps no backoff delay after attempt max_retries:
\* the backoff sleeps are those of the failed attempts below max_retries, in
\* order, each with that delay.
C22_BackoffDoubles ==
  \A i \in Pipelines :
    /\ \A k \in DOMAIN BackoffSleeps(i) :
         /\ BackoffSleeps(i)[k].attempt = k
         /\ k < max_retries
         /\ k \in FailedRetryable(i)
         /\ BackoffSleeps(i)[k].delay = retry_delay * 2 ^ (k - 1)
    /\ \A a \in FailedRetryable(i) :
         a < max_retries => a \in DOMAIN BackoffSleeps(i)

\* A validation whose attempts 1, 2 and 3 failed, the first by a timeout and
\* the second by a refused connection, has slept two backoff delays
C22_Witness ==
  \E i \in Pipelines :
    /\ pc[i] = "done"
    /\ hsCount[i] = 3
    /\ heard[i][2].exc = "timeout"
    /\ heard[i][3].exc = "refused"
    /\ Len(BackoffSleeps(i)) = 2

\* The handshake attempts of the pipeline that were handed to the executor
Started(i) ==
  {n \in 1..max_retries : n <= hsCount[i] \/ (pc[i] = "smtp" /\ n = attempt[i])}

\* The places in the pipeline's sleeps of the rate-limit sleep before attempt
\* n and of the backoff sleep after attempt n
RateSleeps(i, n) ==
  {k \in DOMAIN slept[i] : slept[i][k].kind = "rate_limit" /\ slept[i][k].attempt = n}

BackoffsAfter(i, n) ==
  {k \in DOMAIN slept[i] : slept[i][k].kind = "backoff" /\ slept[i][k].attempt = n}

\* C23: every handshake attempt that is started, the first and each retry,
\* has the rate-limit sleep of rate_limit_delay as the last sleep before it
\* (none when the delay is zero); before a retry that sleep comes after the
\* backoff sleep of the failed attempt, so both delays are slept.
C23_RateLimitBeforeEachAttempt ==
  \A i \in Pipelines : \A n \in Started(i) :
    /\ Cardinality(RateSleeps(i, n)) = (IF rate_limit_delay > 0 THEN 1 ELSE 0)
    /\ \A k \in RateSleeps(i, n) :
         /\ slept[i][k].delay = rate_limit_delay
         /\ \A j \in DOMAIN slept[i] : j > k => slept[i][j].attempt >= n
    /\ n > 1 =>
         /\ Cardinality(BackoffsAfter(i, n - 1)) = 1
         /\ \A b \in BackoffsAfter(i, n - 1) :
              /\ slept[i][b].delay > 0
              /\ \A k \in RateSleeps(i, n) : k = b + 1

\* A retry has been handed to the executor after the backoff sleep and the
\* rate-limit sleep
C23_Witness ==
  \E i \in Pipelines :
    /\ pc[i] = "smtp"
    /\ attempt[i] = 2
    /\ rate_limit_delay > 0
    /\ Len(slept[i]) = 3
    /\ slept[i][2].kind = "backoff"
    /\ slept[i][3].kind = "rate_limit"

\* The step that must have returned right before each protocol step is issued
Predecessors ==
  [ehlo |-> {"connect"}, helo |-> {"ehlo"}, mail |-> {"ehlo", "helo"},
   rcpt |-> {"mail"}, quit |-> {"rcpt"}]

\* C24: the steps of one handshake are issued in the order connect, greeting
\* (EHLO, then HELO when it is needed), sender, recipient, QUIT, close: the
\* first is connect, every later protocol step directly follows its
\* predecessor, close comes last and once, the recipient is announced at most
\* once, and the outcome of an answered recipient announcement is the class
\* of its reply code.
C24_StepsInOrder ==
  probe # NoProbe =>
    LET wire == probe.wire
    IN /\ wire[1] = "connect"
       /\ wire[Len(wire)] = "close"
       /\ \A k \in 2..Len(wire) - 1 :
            /\ wire[k] \in DOMAIN Predecessors
            /\ wire[k - 1] \in Predecessors[wire[k]]
       /\ Cardinality({k \in DOMAIN wire : wire[k] = "rcpt"}) <= 1
       /\ RcptAnswered => probe.status = OutcomeOfCode[script.rcpt.code]

\* A handshake that went through all six steps after a refused EHLO
C24_Witness ==
  /\ probe # NoProbe
  /\ probe.wire = <<"connect", "ehlo", "helo", "mail", "rcpt", "quit", "close">>
  /\ probe.status = "GREYLISTED"

\* The server answered the primary greeting with a code other than 250
PrimaryGreetingRefused ==
  /\ script.connect.exc = "none"
  /\ script.ehlo.exc = "none"
  /\ script.ehlo.code # 250

\* The places of a command in the commands the handshake sent
SentAt(command) == {k \in DOMAIN probe.wire : probe.wire[k] = command}

\* C25: HELO is sent if and only if EHLO was answered with a code other than
\* 250, and then it is sent once, right after EHLO and before the sender is
\* announced.
C25_LegacyGreetingIffRefused ==
  probe # NoProbe =>
    /\ SentAt("helo") # {} <=> PrimaryGreetingRefused
    /\ \A h \in SentAt("helo") :
         /\ SentAt("helo") = {h}
         /\ h - 1 \in SentAt("ehlo")
         /\ \A m \in SentAt("mail") : h < m

\* EHLO was answered 502, HELO was sent and the sender announced after it
C25_Witness ==
  /\ probe # NoProbe
  /\ script.ehlo = Reply(502)
  /\ SentAt("helo") = {3}
  /\ SentAt("mail") = {4}

\* The server answered EHLO and HELO with a code other than 250
BothGreetingsRefused ==
  /\ PrimaryGreetingRefused
  /\ script.helo.exc = "none"
  /\ script.helo.code # 250

\* C26 (as the specification states it): when the server rejects EHLO and
\* HELO the handshake fails: the recipient is not announced on the ungreeted
\* session, and the result is neither VALID nor any other class of a
\* recipient reply.
C26_UngreetedSessionFails ==
  (probe # NoProbe /\ BothGreetingsRefused) =>
    /\ SentAt("rcpt") = {}
    /\ probe.status \notin {"VALID", "GREYLISTED", "MAILBOX_NOT_FOUND"}

\* C27 (as the specification states it): the catch-all test is membership
\* in the list of provider domains, so an address whose domain is not one of
\* them is never reported CATCH_ALL, and when its MX resolution gave a host
\* it is probed.
C27_CatchAllIsMembership ==
  \A i \in Pipelines :
    (pc[i] = "done" /\ validate_syntax(Email(i)) /\ ~ListedDomain(i)) =>
      /\ ret[i].status # "CATCH_ALL"
      /\ ret[i].status # "NO_MX" => hsCount[i] >= 1

\* What the resolver did on the pipeline's MX lookup, "" before the lookup
DnsSaid(i) == IF heard[i] = <<>> THEN "" ELSE heard[i][1].dns

\* C28: when the resolver reports that the domain does not exist, that it
\* has no MX record, or times out, get_mx_records returns the empty list
\* and raises nothing; the pipeline returns NO_MX with attempts 1 and no
\* host, has made that one lookup and no handshake.
C28_FailedLookupIsNoMx ==
  \A i \in Pipelines :
    DnsSaid(i) \in {"NXDOMAIN", "NoAnswer", "Timeout"} =>
      /\ ~heard[i][1].raised
      /\ heard[i][1].records = <<>>
      /\ pc[i] = "done"
      /\ ret[i].status = "NO_MX"
      /\ ret[i].attempts = 1
      /\ ret[i].mx_host = ""
      /\ mxCalls[i] = 1
      /\ hsCount[i] = 0
      /\ slept[i] = <<>>

\* The lookup of a domain that publishes MX records timed out and the
\* pipeline returned NO_MX
C28_Witness ==
  \E i \in Pipelines :
    /\ DnsSaid(i) = "Timeout"
    /\ Zone(DomainOf(Email(i))) # {}
    /\ pc[i] = "done"
    /\ ret[i].status = "NO_MX"

\* The hosts of the domain's MX records with the lowest preference value
MinPriorityHosts(domain) ==
  {RStripDot[r[2]] : r \in {q \in Zone(domain) : \A p \in Zone(domain) : q[1] <= p[1]}}

\* The handshakes the pipeline has run, as places in what it heard
Handshakes(i) == 2..Len(heard[i])

\* C29: every handshake of a validation, the first and every retry, is run
\* against a host whose MX record has the lowest preference value of the
\* records resolved for the domain, and all of them against the same host.
C29_LowestPreferenceHost ==
  \A i \in Pipelines : \A k \in Handshakes(i) :
    /\ heard[i][k].host \in MinPriorityHosts(DomainOf(Email(i)))
    /\ heard[i][k].host = heard[i][2].host

\* A domain with records of preference 10 and 20 was probed twice, both
\* times at the host of preference 10
C29_Witness ==
  \E i \in Pipelines :
    /\ Cardinality(Zone(DomainOf(Email(i)))) = 2
    /\ Len(heard[i]) = 3
    /\ heard[i][2].host = "mx1.x.io"
    /\ heard[i][3].host = "mx1.x.io"

\* The pipeline's MX lookup gave at least one record, so it has an mx_host
ResolvedHost(i) == heard[i] # <<>> /\ heard[i][1].records # <<>>

\* C30 (as the specification states it): a pipeline that resolved an MX host
\* and returned, as CATCH_ALL or out of the retry loop, has recorded exactly
\* one check for that host in the monitor, whether or not the log could be
\* written.  (One pipeline runs, so the host's total is that pipeline's.)
C30_RecordedExactlyOnce ==
  \A i \in Pipelines :
    (ResolvedHost(i) /\ pc[i] = "done") => checks[mx_host[i]].total = 1

\* The counters of a host's entry
Counters == {"total", "success", "failures", "timeouts", "refused"}

\* C31: record_check is atomic with respect to concurrent pipelines: after
\* any interleaving of the pipelines of a batch each host's total equals the
\* number of record_check calls made for that host and success + failures
\* equals total, and no step makes a counter of a host smaller.
C31_RecordCheckAtomic ==
  /\ [](\A h \in Hosts :
          /\ checks[h].total = rcCalls[h]
          /\ checks[h].success + checks[h].failures = checks[h].total)
  /\ [][\A h \in Hosts : \A c \in Counters : checks'[h][c] >= checks[h][c]]_vars

\* C31 witness: two pipelines of a batch have both recorded checks for the
\* same host, a success and a failure among them, the pipeline started
\* second recording first
C31_Witness ==
  /\ Len(emails) = 2
  /\ mx_host[1] = mx_host[2]
  /\ mx_host[1] # ""
  /\ finished = <<2, 1>>
  /\ hsCount[1] >= 1
  /\ hsCount[2] >= 1
  /\ rcCalls[mx_host[1]] >= 2
  /\ checks[mx_host[1]].success >= 1
  /\ checks[mx_host[1]].failures >= 1

\* The handshake attempts of the pipeline in which a library call raised
\* something other than a timeout or a refused connection
BrokenHandshakes(i) ==
  {k \in Handshakes(i) : heard[i][k].details \in {"server_disconnected", "error"}}

\* An unexpected failure has happened in the pipeline's handshake or in the
\* retry loop around it
Unexpected(i) == BrokenHandshakes(i) # {} \/ last_error[i] = "error"

\* C32 (as the specification states it): a pipeline in which an unexpected
\* failure happened, a mid-session disconnect or any other exception in the
\* handshake or in the retry loop around it, does not end by an exception,
\* returns a record with outcome SMTP_ERROR, and ran no handshake after the
\* failure.
C32_UnexpectedIsSmtpError ==
  \A i \in Pipelines :
    Unexpected(i) =>
      /\ pc[i] # "raised"
      /\ pc[i] = "done" => ret[i].status = "SMTP_ERROR"
      /\ \A k \in Handshakes(i) : k < Len(heard[i]) => heard[i][k].exc \in RetryableFailures

\* C33 (as the specification states it): every record has attempts >= 1, and
\* the record of an address that was probed has attempts equal to the number
\* of handshake attempts executed for it, however the retry loop was left
\* and whatever max_retries is.
C33_AttemptsIsHandshakes ==
  \A i \in Pipelines :
    pc[i] = "done" =>
      /\ ret[i].attempts >= 1
      /\ hsCount[i] >= 1 => ret[i].attempts = hsCount[i]

\* C34 (as the specification states it): under fair scheduling every batch
\* completes: no pipeline is ever cancelled, every pipeline comes to return
\* its record, and validate_batch comes to return.
C34_BatchCompletes ==
  /\ [](\A i \in Pipelines : pc[i] # "cancelled")
  /\ <>(batch = "returned" /\ \A i \in Pipelines : pc[i] = "done")

\* C35: whenever the recipient announcement got a reply, QUIT is sent, once,
\* after the announcement and before the connection is closed, and whatever
\* happens to the QUIT (answered, timed out, connection lost, any other
\* error) the handshake returns the outcome of the recipient's reply code.
C35_QuitBeforeClose ==
  RcptAnswered =>
    /\ Cardinality(SentAt("quit")) = 1
    /\ \A q \in SentAt("quit") :
         /\ \A r \in SentAt("rcpt") : r < q
         /\ \A c \in SentAt("close") : q < c
    /\ probe.exc = "none"
    /\ probe.status = OutcomeOfCode[script.rcpt.code]
    /\ ~probe.open

\* C35 witness: the server rejected the recipient and the QUIT timed out;
\* the handshake reports the rejection
C35_Witness ==
  /\ RcptAnswered
  /\ script.rcpt.code = 550
  /\ script.quit.exc = "timeout"
  /\ SentAt("quit") # {}
  /\ probe.status = "MAILBOX_NOT_FOUND"

\* The permits held: one by every pipeline inside the `async with` body
Held == Cardinality({i \in Pipelines : pc[i] \in ActiveStates})

\* C36: permits are conserved: in every state the permits held and the free
\* ones add up to max_concurrent, a pipeline that has ended, by a record, by
\* an exception or by cancellation, holds none, and once validate_batch has
\* returned or raised all max_concurrent permits are free.
C36_PermitsConserved ==
  /\ Held + sem = max_concurrent
  /\ sem >= 0
  /\ batch \in {"returned", "raised"} => sem = max_concurrent

\* C36 witness: a batch of two that ended by the exception of one pipeline
\* while the other one held a permit, and both permits are free again
C36_Witness ==
  /\ batch = "raised"
  /\ max_concurrent = 2
  /\ \E i, j \in Pipelines :
       /\ pc[i] = "raised"
       /\ hsCount[i] >= 1
       /\ pc[j] = "cancelled"
       /\ mxCalls[j] >= 1
  /\ sem = 2

\* What the answer of get_smtp_stats tells about the host: its success count
ReportedSuccess(answer, host) ==
  IF "mx_servers" \notin DOMAIN answer.value THEN 0
  ELSE IF \E k \in DOMAIN answer.value.mx_servers : answer.value.mx_servers[k].mx_host = host
    THEN LET k == CHOOSE j \in DOMAIN answer.value.mx_servers :
                    answer.value.mx_servers[j].mx_host = host
         IN answer.value.mx_servers[k].success
  ELSE 0

\* C37 (as the specification states it): when a batch has returned, the
\* statistics get_smtp_stats derives from the monitoring log agree with the
\* monitor: for every host the log-derived total and success count equal
\* the total and success count of SMTPMonitor.
C37_LogAgreesWithMonitor ==
  batch = "returned" =>
    LET answer == get_smtp_stats(logfile, now, 1)
    IN /\ answer.raises = ""
       /\ \A h \in Hosts :
            /\ ReportedTotal(answer, h) = checks[h].total
            /\ ReportedSuccess(answer, h) = checks[h].success

\* The request failed in a way that may pass: a timeout, a connection error,
\* 429 or a 5xx status
Transient(reply) ==
  \/ reply.kind \in {"Timeout", "ConnectionError"}
  \/ reply.kind = "response" /\ (reply.status_code = 429 \/ reply.status_code >= 500)

\* The request got an answer that will not change: a 4xx status other than
\* 429, or 200 with ok false
Definitive(reply) ==
  /\ reply.kind = "response"
  /\ \/ reply.status_code \in 400..499 \ {429}
     \/ reply.status_code = 200 /\ reply.body = "ok_false"

\* C38: a call of _make_request_with_retry sends at most max_retries
\* requests and never sleeps more often than it has sent requests; until it
\* has returned it can always take a step; what it returns is a pair
\* (success, data); and once the request of the last attempt has failed
\* (timeout, connection error, 429, 502/503 or another 5xx) the call has
\* returned success = False with no sleep after that request.
C38_BoundedRequests ==
  /\ Len(tg_heard) <= tg_max_retries
  /\ Len(tg_slept) <= Len(tg_heard)
  /\ tg_pc # "returned" => ENABLED NextTelegram
  /\ tg_pc = "returned" =>
       /\ DOMAIN tg_ret = {"success", "data"}
       /\ tg_ret.success \in BOOLEAN
  /\ (/\ tg_heard # <<>>
      /\ Len(tg_heard) = tg_max_retries
      /\ Transient(tg_heard[Len(tg_heard)])) =>
       /\ tg_pc = "returned"
       /\ ~tg_ret.success
       /\ Len(tg_slept) = tg_max_retries - 1

\* C38 witness: three requests, the first rate limited, the second timed out
\* and the last answered 503; two sleeps, and the call returned failure
C38_Witness ==
  /\ tg_max_retries = 3
  /\ Len(tg_heard) = 3
  /\ tg_heard[1].kind = "response"
  /\ tg_heard[1].status_code = 429
  /\ tg_heard[2].kind = "Timeout"
  /\ tg_heard[3].kind = "response"
  /\ tg_heard[3].status_code = 503
  /\ Len(tg_slept) = 2
  /\ tg_pc = "returned"
  /\ ~tg_ret.success

\* C39 (as the specification states it): a 4xx status other than 429 or a
\* 200 response with ok false ends the call after that request with
\* success = False, and a timeout, a connection error, a 429 or a 5xx at an
\* attempt below max_retries is followed by a sleep and by another request.
C39_RetriesOnlyTransient ==
  \A k \in DOMAIN tg_heard :
    /\ Definitive(tg_heard[k]) =>
         /\ k = Len(tg_heard)
         /\ tg_pc = "returned"
         /\ ~tg_ret.success
    /\ (Transient(tg_heard[k]) /\ k < tg_max_retries) =>
         /\ Len(tg_slept) >= k
         /\ tg_pc = "returned" => Len(tg_heard) > k

====
